---- MODULE Spec2Model ----
(***************************************************************************)
(* Teams bot of louspringer/chatbot-llm: the ConversationData state        *)
(* machine (teams_bot/bot/conversation_data.py), the StateManager          *)
(* persistence layer (teams_bot/bot/state_manager.py) and the error        *)
(* handling middleware (teams_bot/bot/error_middleware.py).                *)
(*                                                                         *)
(* The `transitions` library is configured by ConversationData with        *)
(* AsyncMachine(states, transitions, initial, before_state_change,         *)
(* after_state_change, prepare_event, send_event=True, queued=True) and    *)
(* then add_model(self).  The constructor's `model` argument keeps its     *)
(* default, so the machine is a model of itself and the ConversationData   *)
(* object is a second model: each has its own `state` attribute.           *)
(* The trigger methods bound to ConversationData (self.start_auth(), ...)  *)
(* fire an event on the ConversationData model; _machine.trigger(name)     *)
(* fires it on the machine's own model; _machine.dispatch(name) fires it   *)
(* on both, machine first, through the shared event queue.                 *)
(***************************************************************************)
EXTENDS Integers, Sequences, FiniteSets, TLC

VARIABLES
    conv,        \* the ConversationData object under test
    now,         \* the clock read by datetime.utcnow(), in seconds
    ticks,       \* number of clock advances so far
    outcome,     \* what the last call on conv did: operation, argument, exception
    script_pos,  \* position of the caller in the test_state_transitions script
    at_checkpoint, \* the restorable fields as they were at the last create_checkpoint
    sm_key,      \* the StateManager's STATE_ENCRYPTION_KEY ("" when unset)
    storage,     \* the Storage behind the StateManager: key -> document
    loaded,      \* what the last get_conversation_data returned
    saved,       \* the data passed to the last save_conversation_data
    sm_outcome,  \* what the last StateManager call did
    sm_error_count, \* StateManager._error_count
    handle_calls,   \* calls of StateManager.handle_error so far
    clear_calls,    \* calls of StateManager.clear_state so far
    deleted,     \* activities deleted through TurnContext.delete_activity
    turn         \* what the last ErrorHandlingMiddleware.on_turn did

VARIABLES
    lock,        \* /tmp/secret_rotation.lock: None or its mtime
    pc,          \* where each rotation process is in SecretRotator.run
    stale_used   \* a lock older than one hour has been taken over

lockVars == <<lock, pc, stale_used>>

VARIABLES
    p8,          \* config/keys of "rotate_secrets 2.py": key, new key, backup
    pem,         \* config/keys of SecretRotator: key, new key, backup
    sf_key,      \* the public key registered with Snowflake
    keygen,      \* number of keys generated so far
    vault,       \* Key Vault: the value of each secret
    rot          \* the last rotation call: its inputs, result, notifications

rotVars == <<p8, pem, sf_key, keygen, vault, rot>>

VARIABLES
    ttl,         \* clpm: package_management.ttl, each package's type and source
    pyproject,   \* clpm: pyproject.toml, the <<name, section>> entries
    envyml,      \* clpm: environment.yml, the <<name, source>> entries
    reqs,        \* clpm: requirements.txt, the names
    add          \* clpm: the last add_package call and how it ended

pkgVars == <<ttl, pyproject, envyml, reqs, add>>

VARIABLES
    mp_graph,    \* manage_packages: PackageManager.graph, a set of triples
    mp_ttl,      \* manage_packages: package_management.ttl as last serialized
    mp_env,      \* manage_packages: environment.yml, the dependencies list
    mp_py,       \* manage_packages: pyproject.toml, dependencies and dev
    mp,          \* manage_packages: the last call and what it returned
    mp_added     \* names for which add_package has returned True

mpVars == <<mp_graph, mp_ttl, mp_env, mp_py, mp, mp_added>>

VARIABLES
    sec_graph,   \* clpm: what the graph holds for each vulnerability URI
    sec_call,    \* clpm: the last check_package call and what it returned
    vuln_call    \* clpm: the last to_ontology_triples call made on its own

secVars == <<sec_graph, sec_call, vuln_call>>

VARIABLES
    dry_run,         \* SessionContextManager.dry_run
    session_graph,   \* SessionContextManager.session_graph, a set of triples
    log_graph,       \* SessionContextManager.log_graph, a set of triples
    session_ttl,     \* the file session.ttl
    session_log_ttl, \* the file session_log.ttl
    scm_call         \* the last call on the manager and how it ended

scmVars == <<dry_run, session_graph, log_graph, session_ttl, session_log_ttl,
             scm_call>>

VARIABLES
    tb_turn,     \* TeamsBot: the last activity given to on_turn and what it did
    tb_turns     \* TeamsBot: number of on_turn calls so far

tbVars == <<tb_turn, tb_turns>>

VARIABLES
    ca_handlers, \* CardActionHandler._action_handlers
    ca_call      \* CardActionHandler: the last call and how it ended

caVars == <<ca_handlers, ca_call>>

VARIABLES
    profiles,    \* the Storage's documents under the keys "user/<id>"
    up_call      \* StateManager: the last user profile call and what it returned

upVars == <<profiles, up_call>>

(* The state of the scripts and tools outside the bot *)
toolVars == <<lockVars, rotVars, pkgVars, mpVars, secVars, scmVars, tbVars, caVars, upVars>>

convVars == <<conv, now, ticks, outcome, script_pos, at_checkpoint>>
storeVars == <<sm_key, storage, loaded, saved, sm_outcome>>
errorVars == <<sm_error_count, handle_calls, clear_calls, deleted, turn>>

----------------------------------------------------------------------------
(* Bounds of the model *)

MaxTicks == 2
MaxHistory == 2
MaxErrors == 4

(* Bounds of the checkpoint specification *)
MaxCkTicks == 1
MaxCkHistory == 2
MaxCkErrors == 1

(* Bounds of the error handling specification *)
MaxHandleCalls == 7
MaxTurnTicks == 2

(* Steps of time while rotation processes run *)
MaxLockTicks == 3

(* Keys generated by the rotation scripts *)
MaxKeys == 3

(* Runs of clpm add *)
MaxAdds == 2

(* Clock advances the model draws from, in seconds: just over the QUERYING *)
(* timeout and just over the AUTHENTICATING timeout; two of them exceed    *)
(* the global timeout                                                      *)
TimeSteps == {61, 301}

----------------------------------------------------------------------------
(* conversation_state.py *)

ConversationState ==
    {"IDLE", "AUTHENTICATING", "QUERYING", "PROCESSING", "RESPONDING",
     "ERROR", "COMPLETED", "INITIALIZED", "AUTHENTICATED"}

MAX_ERROR_COUNT == 3

(* Python values: None, a str, an ISO timestamp string, a dict (its items  *)
(* as a set of <<key, value>>; json_ok is whether json.dumps accepts it)   *)
None == [kind |-> "none"]
Str(s) == [kind |-> "str", v |-> s]
Iso(t) == [kind |-> "iso", t |-> t]
Dict(items, ok) == [kind |-> "dict", items |-> items, json_ok |-> ok]

----------------------------------------------------------------------------
(* ConversationData._initialize_state_machine: the transition table.       *)

transitions ==
    { [trigger |-> "start_auth", source |-> "INITIALIZED",
       dest |-> "AUTHENTICATING", before |-> <<>>,
       after |-> <<"_after_state_change">>],
      [trigger |-> "auth_complete", source |-> "AUTHENTICATING",
       dest |-> "AUTHENTICATED", before |-> <<>>,
       after |-> <<"_after_state_change">>],
      [trigger |-> "start_query", source |-> "AUTHENTICATED",
       dest |-> "QUERYING", before |-> <<>>,
       after |-> <<"_after_state_change">>],
      [trigger |-> "query_complete", source |-> "QUERYING",
       dest |-> "AUTHENTICATED", before |-> <<>>,
       after |-> <<"_after_state_change">>],
      [trigger |-> "error", source |-> "*",
       dest |-> "ERROR", before |-> <<>>,
       after |-> <<"_after_state_change">>],
      [trigger |-> "reset", source |-> "*",
       dest |-> "INITIALIZED", before |-> <<"_handle_reset">>,
       after |-> <<"_after_state_change">>] }

(* The events the machine knows: the attribute names add_model binds.      *)
TriggerNames == { tr.trigger : tr \in transitions }

(* Names the callers of this repository dispatch that are in no transition *)
UndefinedTriggers == {"auth_success", "process_query", "send_response", "complete"}

(* Event._is_valid_source: the event has a transition from this state.     *)
IsValidSource(t, s) ==
    \E tr \in transitions : tr.trigger = t /\ tr.source \in {s, "*"}

TransitionFor(t, s) ==
    CHOOSE tr \in transitions : tr.trigger = t /\ tr.source \in {s, "*"}

(* Machine.get_triggers(state) *)
get_triggers(s) == { t \in TriggerNames : IsValidSource(t, s) }

----------------------------------------------------------------------------
(* A call's result: the object after the call and the exception raised.    *)

Ok(c) == [c |-> c, exc |-> "none"]
Raise(c, e) == [c |-> c, exc |-> e]

(* ConversationData._before_event (prepare_event) *)
_before_event(c, t, s) ==
    IF t \notin get_triggers(s)
    THEN Raise([c EXCEPT !.error_count = @ + 1], "MachineError")
    ELSE Ok(c)

(* ConversationData._before_state_change *)
_before_state_change(c, clock) == [c EXCEPT !.last_activity = Iso(clock)]

(* An _after_state_change that appends an entry whatever the last one is *)
_after_state_change_always_appends(c, s, t, clock) ==
    [c EXCEPT !.state_history =
                 Append(@, [state |-> s, timestamp |-> Iso(clock), trigger |-> t]),
              !.current_state = s]

(* ConversationData._after_state_change; s is event_data.state.name, the   *)
(* state the firing model is in after the change, t is event_data.event    *)
_after_state_change(c, s, t, clock) ==
    LET h == c.state_history
        h2 == IF Len(h) = 0 \/ h[Len(h)].state # s
              THEN Append(h, [state |-> s, timestamp |-> Iso(clock), trigger |-> t])
              ELSE h
    IN [c EXCEPT !.state_history = h2, !.current_state = s]

(* A reset that forgets to clear the error count *)
_handle_reset_keeps_errors(c) == [c EXCEPT !.state_history = <<>>]

(* ConversationData._handle_reset *)
_handle_reset(c) == [c EXCEPT !.error_count = 0, !.state_history = <<>>]

----------------------------------------------------------------------------
(* Firing an event (transitions: Event.trigger, Transition.execute).       *)
(* Order of one transition: the source check (MachineError when the event  *)
(* has no transition from the model's state), prepare_event, then          *)
(* before_state_change and the transition's `before`, the state change,    *)
(* the transition's `after` and after_state_change.  A callback given by   *)
(* name is looked up on the model that fires the event.                    *)

(* The event fired on the ConversationData model: self.start_auth(),       *)
(* self.error(), self.reset(), ... as bound by add_model(self).            *)
EventOnModel(c, t, clock) ==
    IF ~IsValidSource(t, c.state)
    THEN Raise(c, "MachineError")
    ELSE LET p == _before_event(c, t, c.state) IN
         IF p.exc # "none" THEN p
         ELSE LET tr == TransitionFor(t, c.state)
                  c1 == _before_state_change(p.c, clock)
                  c2 == IF tr.before = <<"_handle_reset">>
                        THEN _handle_reset(c1) ELSE c1
                  c3 == [c2 EXCEPT !.state = tr.dest]
                  c4 == _after_state_change(c3, tr.dest, t, clock)
                  c5 == _after_state_change(c4, tr.dest, t, clock)
              IN Ok(c5)

(* The event fired on the machine's own model: _machine.trigger(name).     *)
(* The names in `before` and `after` are looked up on the machine:         *)
(* "_handle_reset" is no attribute of it (AttributeError, raised after     *)
(* before_state_change has run and before the state changes);              *)
(* "_after_state_change" is the machine's own list of callbacks, which is  *)
(* not callable and so does nothing.  after_state_change itself is the     *)
(* bound method of the ConversationData and updates its current_state.     *)
EventOnMachine(c, t, clock) ==
    IF ~IsValidSource(t, c.machine_state)
    THEN Raise(c, "MachineError")
    ELSE LET p == _before_event(c, t, c.machine_state) IN
         IF p.exc # "none" THEN p
         ELSE LET tr == TransitionFor(t, c.machine_state)
                  c1 == _before_state_change(p.c, clock)
              IN IF tr.before # <<>>
                 THEN Raise(c1, "AttributeError")
                 ELSE LET c3 == [c1 EXCEPT !.machine_state = tr.dest]
                      IN Ok(_after_state_change(c3, tr.dest, t, clock))

(* AsyncMachine.dispatch(trigger): getattr(model, trigger) for every model *)
(* (AttributeError for a name that is no event), then the event on the     *)
(* machine's model and, queued behind it, on the ConversationData model;   *)
(* an exception in the first clears the queue.                             *)
dispatch(c, t, clock) ==
    IF t \notin TriggerNames
    THEN Raise(c, "AttributeError")
    ELSE LET r1 == EventOnMachine(c, t, clock) IN
         IF r1.exc # "none" THEN r1
         ELSE EventOnModel(r1.c, t, clock)

(* ConversationData.handle_error *)
handle_error(c, clock) == EventOnModel(c, "error", clock)

(* ConversationData.start_authentication, authentication_complete,         *)
(* start_querying, querying_complete: the bound trigger; on MachineError   *)
(* error_count += 1, handle_error(), re-raise.                             *)
PublicTrigger(c, t, clock) ==
    LET r == EventOnModel(c, t, clock) IN
    IF r.exc = "MachineError"
    THEN LET c1 == [r.c EXCEPT !.error_count = @ + 1]
             h == handle_error(c1, clock)
         IN Raise(h.c, IF h.exc # "none" THEN h.exc ELSE "MachineError")
    ELSE r

(* ConversationData.reset_state *)
reset_state(c, clock) == EventOnModel(c, "reset", clock)

----------------------------------------------------------------------------
(* Checkpoints *)

(* ConversationData.create_checkpoint: the dict stored in checkpoint_data  *)
CheckpointOf(c) ==
    [kind |-> "checkpoint",
     current_state |-> c.current_state,
     conversation_references |-> c.conversation_references,
     active_query |-> c.active_query,
     last_response |-> c.last_response,
     error_count |-> c.error_count,
     last_activity |-> c.last_activity,
     state_history |-> c.state_history,
     last_message_id |-> c.last_message_id]

create_checkpoint(c, clock) ==
    [c EXCEPT !.checkpoint_data = CheckpointOf(c),
              !.checkpoint_timestamp = Iso(clock)]

(* A restore that leaves last_message_id and error_count as they are *)
restore_checkpoint_partial(c) ==
    IF c.checkpoint_data = None
    THEN [c |-> c, ret |-> FALSE]
    ELSE LET k == c.checkpoint_data IN
         [c |-> [c EXCEPT !.current_state = k.current_state,
                          !.conversation_references = k.conversation_references,
                          !.active_query = k.active_query,
                          !.last_response = k.last_response,
                          !.last_activity = k.last_activity,
                          !.state_history = k.state_history],
          ret |-> TRUE]

(* ConversationData.restore_checkpoint: the object and the value returned  *)
restore_checkpoint(c) ==
    IF c.checkpoint_data = None
    THEN [c |-> c, ret |-> FALSE]
    ELSE LET k == c.checkpoint_data IN
         [c |-> [c EXCEPT !.current_state = k.current_state,
                          !.conversation_references = k.conversation_references,
                          !.active_query = k.active_query,
                          !.last_response = k.last_response,
                          !.error_count = k.error_count,
                          !.last_activity = k.last_activity,
                          !.state_history = k.state_history,
                          !.last_message_id = k.last_message_id],
          ret |-> TRUE]

----------------------------------------------------------------------------
(* ConversationData.check_state_timeout: TRUE when the current state has   *)
(* NOT timed out.  No transition of the table names it, or                 *)
(* validate_transition, as a condition.                                    *)
check_state_timeout(c, clock) ==
    IF c.last_activity = None THEN TRUE
    ELSE IF c.last_activity.kind # "iso" THEN FALSE
    ELSE LET timeout == clock - c.last_activity.t IN
         IF c.current_state = "AUTHENTICATING" /\ timeout > 300 THEN FALSE
         ELSE IF c.current_state = "QUERYING" /\ timeout > 60 THEN FALSE
         ELSE IF c.current_state = "PROCESSING" /\ timeout > 120 THEN FALSE
         ELSE IF timeout > 600 THEN FALSE
         ELSE TRUE

----------------------------------------------------------------------------
(* The ConversationData object *)

(* ConversationData(conversation_id, current_state): the dataclass         *)
(* defaults and __post_init__, which starts both models of the machine in  *)
(* current_state.                                                          *)
NewConversationData(id, s, clock) ==
    [conversation_id |-> id,
     machine_state |-> s,
     state |-> s,
     current_state |-> s,
     last_message_id |-> None,
     active_query |-> None,
     last_response |-> None,
     conversation_references |-> Dict({}, TRUE),
     last_activity |-> Iso(clock),
     state_history |-> <<>>,
     checkpoint_data |-> None,
     checkpoint_timestamp |-> None,
     error_count |-> 0,
     state_manager |-> None]

(* What callers write into the data fields of a conversation               *)
FieldProfiles ==
    { [active_query |-> Str("q1"), last_response |-> Str("r1"),
       conversation_references |-> Dict({<<"ref1", "value1">>}, TRUE),
       last_message_id |-> Str("m1")],
      [active_query |-> Str("q2"), last_response |-> None,
       conversation_references |-> Dict({}, TRUE),
       last_message_id |-> Str("m2")] }

SetFields(c, p) ==
    [c EXCEPT !.active_query = p.active_query,
              !.last_response = p.last_response,
              !.conversation_references = p.conversation_references,
              !.last_message_id = p.last_message_id]

(* The fields restore_checkpoint is to bring back *)
Restorable(c) ==
    [current_state |-> c.current_state,
     conversation_references |-> c.conversation_references,
     active_query |-> c.active_query,
     last_response |-> c.last_response,
     error_count |-> c.error_count,
     last_activity |-> c.last_activity,
     state_history |-> c.state_history,
     last_message_id |-> c.last_message_id]

----------------------------------------------------------------------------
(* StateManager: field encryption (state_manager.py) *)

(* A reference to a StateManager; key is its STATE_ENCRYPTION_KEY, ""      *)
(* when none is configured (then _fernet is None)                          *)
StateManagerRef(key) == [kind |-> "StateManager", key |-> key]

(* StateManager.encrypt: the value itself without a key, else the base64   *)
(* of a Fernet token of it                                                 *)
encrypt(key, value) ==
    IF key = "" THEN value
    ELSE [kind |-> "fernet", key |-> key, data |-> value]

(* StateManager.decrypt: the value itself without a key or when it is no   *)
(* token of this key (the exception is logged and the input returned)      *)
decrypt(key, value) ==
    IF key = "" THEN value
    ELSE IF value.kind = "fernet" /\ value.key = key THEN value.data
    ELSE value

(* json.dumps({"value": v}) raises TypeError on a value it cannot encode   *)
JsonSerializable(v) == v.kind = "dict" => v.json_ok
json_dumps(v) == [kind |-> "json", value |-> v]

(* json.loads(x) raises unless x is JSON text; then .get("value")          *)
IsJson(x) == x.kind = "json"
json_loads_value(x) == x.value

(* Python truthiness of a stored field *)
Truthy(v) ==
    /\ v # None
    /\ (v.kind = "dict" => v.items # {})
    /\ (v.kind = "str" => v.v # "")

----------------------------------------------------------------------------
(* ConversationData.to_dict / from_dict *)

SensitiveFields ==
    {"active_query", "last_response", "conversation_references", "last_message_id"}

(* An encoding that falls back to the value itself when json.dumps raises  *)
EncodeField_plain_on_failure(sm, value) ==
    IF value = None THEN None
    ELSE IF JsonSerializable(value) THEN encrypt(sm.key, json_dumps(value))
    ELSE value

(* to_dict, one sensitive field with a state manager attached: None stays  *)
(* None, a value becomes encrypt(json.dumps({"value": value})), and None   *)
(* when that raises                                                        *)
EncodeField(sm, value) ==
    IF value = None THEN None
    ELSE IF JsonSerializable(value) THEN encrypt(sm.key, json_dumps(value))
    ELSE None

to_dict(c) ==
    LET base == [conversation_id |-> c.conversation_id,
                 current_state |-> c.current_state,
                 last_activity |-> c.last_activity,
                 last_checkpoint_timestamp |-> c.checkpoint_timestamp,
                 error_count |-> c.error_count,
                 state_history |-> c.state_history]
        enc == IF c.state_manager # None
               THEN [f \in SensitiveFields |-> EncodeField(c.state_manager, c[f])]
               ELSE [f \in SensitiveFields |->
                        IF f = "conversation_references" THEN Dict({}, TRUE)
                        ELSE c[f]]
    IN [k \in DOMAIN base \cup SensitiveFields |->
            IF k \in SensitiveFields THEN enc[k] ELSE base[k]]

(* A decoding that parses the stored value without decrypting it          *)
DecodeField_no_decrypt(sm, stored) ==
    IF ~Truthy(stored) THEN None
    ELSE IF IsJson(stored) THEN json_loads_value(stored) ELSE None

(* from_dict, one sensitive field with a state manager given: a falsy      *)
(* stored value gives None; else decrypt, json.loads, .get("value"), and   *)
(* None when that raises                                                   *)
DecodeField(sm, stored) ==
    IF ~Truthy(stored) THEN None
    ELSE LET decrypted == decrypt(sm.key, stored) IN
         IF IsJson(decrypted) THEN json_loads_value(decrypted) ELSE None

from_dict(data, sm, clock) ==
    LET inst == NewConversationData(data.conversation_id, data.current_state, clock)
        dec == IF sm # None
               THEN [f \in SensitiveFields |-> DecodeField(sm, data[f])]
               ELSE [f \in SensitiveFields |->
                        IF f = "conversation_references" THEN Dict({}, TRUE)
                        ELSE data[f]]
    IN [inst EXCEPT !.state_manager = sm,
                    !.last_activity = data.last_activity,
                    !.checkpoint_timestamp = data.last_checkpoint_timestamp,
                    !.error_count = data.error_count,
                    !.state_history = data.state_history,
                    !.active_query = dec["active_query"],
                    !.last_response = dec["last_response"],
                    !.conversation_references = dec["conversation_references"],
                    !.last_message_id = dec["last_message_id"]]

----------------------------------------------------------------------------
(* test_state_transitions: the triggers it dispatches and the states it    *)
(* asserts after each                                                      *)
Script ==
    <<"start_auth", "auth_success", "start_query", "process_query",
      "send_response", "complete">>

ScriptStates ==
    <<"AUTHENTICATING", "AUTHENTICATED", "QUERYING", "PROCESSING",
      "RESPONDING", "IDLE">>

(* Position in the script after a call: it advances while the calls made   *)
(* on the fresh object are exactly the script's dispatches, in order.      *)
NextPos(pos, op, t) ==
    IF pos >= 0 /\ pos < Len(Script) /\ op = "dispatch" /\ t = Script[pos + 1]
    THEN pos + 1
    ELSE -1

(* The record of a call: the operation, its argument, the exception it     *)
(* raised, the value it returned, and the current_state and error_count    *)
(* the object had when it was called                                       *)
Outcome(op, arg, exc, ret, c) ==
    [op |-> op, arg |-> arg, exc |-> exc, ret |-> ret,
     from_state |-> c.current_state, from_errors |-> c.error_count]

InBounds ==
    /\ Len(conv.state_history) < MaxHistory
    /\ conv.error_count < MaxErrors

----------------------------------------------------------------------------
(* Operations on the conversation *)

(* A call that fires a trigger and may raise *)
Call(op, arg, r) ==
    /\ conv' = r.c
    /\ outcome' = Outcome(op, arg, r.exc, r.exc = "none", conv)
    /\ script_pos' = NextPos(script_pos, op, arg)
    /\ UNCHANGED <<now, ticks, at_checkpoint, storeVars, errorVars, toolVars>>

StartAuthentication ==
    /\ InBounds
    /\ Call("start_authentication", "start_auth",
            PublicTrigger(conv, "start_auth", now))

AuthenticationComplete ==
    /\ InBounds
    /\ Call("authentication_complete", "auth_complete",
            PublicTrigger(conv, "auth_complete", now))

StartQuerying ==
    /\ InBounds
    /\ Call("start_querying", "start_query",
            PublicTrigger(conv, "start_query", now))

QueryingComplete ==
    /\ InBounds
    /\ Call("querying_complete", "query_complete",
            PublicTrigger(conv, "query_complete", now))

HandleError ==
    /\ InBounds
    /\ Call("handle_error", "error", handle_error(conv, now))

ResetState ==
    Call("reset_state", "reset", reset_state(conv, now))

(* ConversationData.trigger(name), and the tests' _machine.dispatch(name)  *)
Dispatch ==
    /\ InBounds
    /\ \E t \in TriggerNames \cup UndefinedTriggers :
          Call("dispatch", t, dispatch(conv, t, now))

CreateCheckpoint ==
    /\ conv' = create_checkpoint(conv, now)
    /\ outcome' = Outcome("create_checkpoint", "", "none", TRUE, conv)
    /\ at_checkpoint' = Restorable(conv)
    /\ script_pos' = -1
    /\ UNCHANGED <<now, ticks, storeVars, errorVars, toolVars>>

RestoreCheckpoint ==
    LET r == restore_checkpoint(conv) IN
    /\ conv' = r.c
    /\ outcome' = Outcome("restore_checkpoint", "", "none", r.ret, conv)
    /\ script_pos' = -1
    /\ UNCHANGED <<now, ticks, at_checkpoint, storeVars, errorVars, toolVars>>

WriteFields ==
    \E p \in FieldProfiles :
       /\ conv' = SetFields(conv, p)
       /\ outcome' = Outcome("write_fields", "", "none", TRUE, conv)
       /\ script_pos' = -1
       /\ UNCHANGED <<now, ticks, at_checkpoint, storeVars, errorVars, toolVars>>

(* Time passes *)
Tick ==
    /\ ticks < MaxTicks
    /\ \E d \in TimeSteps : now' = now + d
    /\ ticks' = ticks + 1
    /\ UNCHANGED <<conv, outcome, script_pos, at_checkpoint, storeVars, errorVars, toolVars>>

----------------------------------------------------------------------------
(* ConversationData.has_valid_checkpoint *)

(* age <= 86400: 24 hours, in seconds *)
CheckpointMaxAge == 86400

(* A check that accepts a checkpoint of any age *)
has_valid_checkpoint_any_age(c, clock) ==
    /\ c.checkpoint_data # None
    /\ c.checkpoint_timestamp # None
    /\ c.checkpoint_timestamp.kind = "iso"

(* datetime.fromisoformat raises ValueError on a text that is no ISO       *)
(* timestamp, and the except clause returns False                          *)
has_valid_checkpoint(c, clock) ==
    IF c.checkpoint_data = None \/ c.checkpoint_timestamp = None
    THEN FALSE
    ELSE IF c.checkpoint_timestamp.kind # "iso"
    THEN FALSE
    ELSE clock - c.checkpoint_timestamp.t <= CheckpointMaxAge

HasValidCheckpoint ==
    /\ outcome' = Outcome("has_valid_checkpoint", "", "none",
                          has_valid_checkpoint(conv, now), conv)
    /\ script_pos' = -1
    /\ UNCHANGED <<conv, now, ticks, at_checkpoint, storeVars, errorVars, toolVars>>

(* The timestamps test_checkpoint_error_handling writes: a text that is no *)
(* timestamp, the present time, two days ago                               *)
TestTimestamps(clock) ==
    {Str("invalid_timestamp"), Iso(clock), Iso(clock - 2 * CheckpointMaxAge)}

(* test_checkpoint_error_handling: checkpoint_timestamp and                *)
(* checkpoint_data are assigned from outside                               *)
SetCheckpoint ==
    \E ts \in TestTimestamps(now), keep_data \in BOOLEAN :
       /\ conv' = [conv EXCEPT !.checkpoint_timestamp = ts,
                               !.checkpoint_data = IF keep_data THEN @ ELSE None]
       /\ outcome' = Outcome("set_checkpoint", "", "none", TRUE, conv)
       /\ script_pos' = -1
       /\ UNCHANGED <<now, ticks, at_checkpoint, storeVars, errorVars, toolVars>>

(* Time passes around a checkpoint: a second, a second less than a day, a  *)
(* day                                                                     *)
CheckpointTimeSteps == {1, CheckpointMaxAge - 1, CheckpointMaxAge}

MaxValidTicks == 3

CheckpointTick ==
    /\ ticks < MaxValidTicks
    /\ \E d \in CheckpointTimeSteps : now' = now + d
    /\ ticks' = ticks + 1
    /\ outcome' = Outcome("tick", "", "none", TRUE, conv)
    /\ UNCHANGED <<conv, script_pos, at_checkpoint, storeVars, errorVars, toolVars>>

(* StateManager over a Storage (state_manager.py) *)

(* StateManager(storage, "conv1") *)
ManagerConvId == "conv1"

StorageKeys == {"conv1", "conv2"}
EncryptionKeys == {"", "k1"}

(* A TurnContext: the conversation id of its activity, "" when empty       *)
Contexts == {"conv1", "conv2", ""}

(* StateManager.load_state, Storage branch: read([id]).get(id)             *)
load_state(st) == st[ManagerConvId]

(* StateManager.save_conversation_data: the storage after the call and the *)
(* exception raised                                                        *)
save_conversation_data(st, ctx, d) ==
    IF ctx = ""
    THEN [st |-> st, exc |-> "ValueError"]
    ELSE [st |-> [st EXCEPT ![ctx] = to_dict(d)], exc |-> "none"]

(* StateManager.get_conversation_data: the stored document of the          *)
(* manager's conversation through from_dict, else a new ConversationData   *)
(* for the context's conversation, saved before it is returned             *)
get_conversation_data(st, ctx, key, clock) ==
    IF ctx = ""
    THEN [st |-> st, data |-> None, exc |-> "ValueError"]
    ELSE LET data == load_state(st) IN
         IF data # None
         THEN [st |-> st,
               data |-> from_dict(data, StateManagerRef(key), clock),
               exc |-> "none"]
         ELSE LET conv_data == NewConversationData(ctx, "INITIALIZED", clock)
              IN [st |-> save_conversation_data(st, ctx, conv_data).st,
                  data |-> conv_data,
                  exc |-> "none"]

(* StateManager.create_checkpoint: stamps the stored document, if any      *)
sm_create_checkpoint(st, clock) ==
    LET data == load_state(st) IN
    IF data # None
    THEN [st EXCEPT ![ManagerConvId] =
            [k \in DOMAIN data \cup {"checkpoint_timestamp"} |->
                IF k = "checkpoint_timestamp" THEN Iso(clock) ELSE data[k]]]
    ELSE st

(* A trigger_transition that saves the data it loaded, the event not fired *)
trigger_transition_not_fired(st, ctx, t, key, clock) ==
    LET g == get_conversation_data(st, ctx, key, clock) IN
    IF g.exc # "none" THEN [st |-> st, exc |-> g.exc]
    ELSE save_conversation_data(g.st, ctx, g.data)

(* StateManager.trigger_transition: the conversation data is loaded, the   *)
(* event is fired with _machine.trigger, that is on the machine's own      *)
(* model, and the data is saved under the context's conversation           *)
trigger_transition(st, ctx, t, key, clock) ==
    LET g == get_conversation_data(st, ctx, key, clock) IN
    IF g.exc # "none" THEN [st |-> st, exc |-> g.exc]
    ELSE IF t \notin TriggerNames THEN [st |-> g.st, exc |-> "AttributeError"]
    ELSE LET r == EventOnMachine(g.data, t, clock) IN
         IF r.exc # "none" THEN [st |-> g.st, exc |-> r.exc]
         ELSE save_conversation_data(g.st, ctx, r.c)

(* Entries of the stored state_history beyond which no transition is       *)
(* triggered                                                               *)
MaxStoredHistory == 3

StoredHistoryLen(st) ==
    IF load_state(st) = None THEN 0 ELSE Len(load_state(st).state_history)

TriggerTransition ==
    /\ StoredHistoryLen(storage) < MaxStoredHistory
    /\ \E ctx \in Contexts, t \in TriggerNames \cup {"auth_success"} :
          LET r == trigger_transition(storage, ctx, t, sm_key, now) IN
          /\ storage' = r.st
          /\ sm_outcome' = [op |-> "trigger_transition", ctx |-> ctx,
                            exc |-> r.exc, after_save |-> FALSE,
                            transition |-> t]
          /\ UNCHANGED <<sm_key, loaded, saved, convVars, errorVars, toolVars>>

(* MAX_ERROR_COUNT of state_manager.py *)
StateManager_MAX_ERROR_COUNT == 3

(* A handler that clears only once the count has passed the maximum        *)
sm_handle_error_late(count) ==
    IF count + 1 > StateManager_MAX_ERROR_COUNT
    THEN [count |-> 0, cleared |-> TRUE]
    ELSE [count |-> count + 1, cleared |-> FALSE]

(* StateManager.handle_error with clear_state inlined: the new error       *)
(* count and whether clear_state ran                                       *)
sm_handle_error(count) ==
    IF count + 1 >= StateManager_MAX_ERROR_COUNT
    THEN [count |-> 0, cleared |-> TRUE]
    ELSE [count |-> count + 1, cleared |-> FALSE]

(* The data callers pass to save_conversation_data *)
StoreProfiles ==
    { [active_query |-> Str("q1"), last_response |-> Str("r1"),
       conversation_references |-> Dict({<<"ref1", "value1">>}, TRUE),
       last_message_id |-> Str("m1")],
      [active_query |-> None, last_response |-> Str("r3"),
       conversation_references |->
           Dict({<<"ref1", "ConversationReference">>}, FALSE),
       last_message_id |-> None] }

HistoryEntry == [state |-> "AUTHENTICATING", timestamp |-> Iso(0), trigger |-> "start_auth"]

SaveInputs ==
    { SetFields([NewConversationData(ManagerConvId, "INITIALIZED", 0) EXCEPT
                    !.current_state = x[1], !.error_count = x[2],
                    !.state_history = x[3], !.state_manager = sm], p) :
        x \in { <<"AUTHENTICATING", 1, <<HistoryEntry>> >>,
                <<"QUERYING", 0, <<>> >> },
        sm \in {None, StateManagerRef(sm_key)},
        p \in StoreProfiles }

SmOutcome(op, ctx, exc, after_save) ==
    [op |-> op, ctx |-> ctx, exc |-> exc, after_save |-> after_save]

(* The last call was a save under this context that returned normally *)
JustSaved(ctx) ==
    /\ sm_outcome.op = "save_conversation_data"
    /\ sm_outcome.exc = "none"
    /\ sm_outcome.ctx = ctx

SaveConversationData ==
    \E ctx \in Contexts, d \in SaveInputs \cup ({loaded} \ {None}) :
       LET r == save_conversation_data(storage, ctx, d) IN
       /\ storage' = r.st
       /\ saved' = d
       /\ sm_outcome' = SmOutcome("save_conversation_data", ctx, r.exc, FALSE)
       /\ UNCHANGED <<sm_key, loaded, convVars, errorVars, toolVars>>

GetConversationData ==
    \E ctx \in Contexts :
       LET r == get_conversation_data(storage, ctx, sm_key, now) IN
       /\ storage' = r.st
       /\ loaded' = r.data
       /\ sm_outcome' = SmOutcome("get_conversation_data", ctx, r.exc, JustSaved(ctx))
       /\ UNCHANGED <<sm_key, saved, convVars, errorVars, toolVars>>

----------------------------------------------------------------------------
(* ErrorHandlingMiddleware (error_middleware.py) *)

(* Exceptions the downstream handler raises, by type(error).__name__       *)
ExceptionTypes ==
    {"PermissionError", "UnauthorizedError", "TimeoutError", "AsyncTimeoutError",
     "SystemError", "RuntimeError", "ValueError", "TypeError", "StateError",
     "TransitionError", "KeyError"}

(* A categorisation that takes RuntimeError for an unknown error *)
_categorize_error_runtime_unknown(e) ==
    IF e \in {"PermissionError", "UnauthorizedError"} THEN "auth_error"
    ELSE IF e \in {"TimeoutError", "AsyncTimeoutError"} THEN "timeout_error"
    ELSE IF e \in {"SystemError"} THEN "system_error"
    ELSE IF e \in {"ValueError", "TypeError"} THEN "validation_error"
    ELSE IF e \in {"StateError", "TransitionError"} THEN "state_error"
    ELSE "unknown_error"

_categorize_error(e) ==
    IF e \in {"PermissionError", "UnauthorizedError"} THEN "auth_error"
    ELSE IF e \in {"TimeoutError", "AsyncTimeoutError"} THEN "timeout_error"
    ELSE IF e \in {"SystemError", "RuntimeError"} THEN "system_error"
    ELSE IF e \in {"ValueError", "TypeError"} THEN "validation_error"
    ELSE IF e \in {"StateError", "TransitionError"} THEN "state_error"
    ELSE "unknown_error"

(* A reference id without the "ERR-" prefix *)
_log_error_no_prefix(clock) == <<"", ToString(clock)>>

(* _log_error: the reference id, f"ERR-{timestamp}", as its two parts      *)
_log_error(clock) == <<"ERR-", ToString(clock)>>

(* The error response: its type and its text, as the parts the f-string    *)
(* joins                                                                   *)
ErrorActivity(error_id) ==
    [type |-> "message",
     text |-> <<"I encountered an error. ", "Reference ID: ">> \o error_id
              \o <<"\nPlease try again later.">>]

(* What a turn did: the exception the handler raised, the exception        *)
(* on_turn let out, and its calls on the state manager and the context in  *)
(* order                                                                   *)
NoTurn == [raised |-> "none", propagated |-> "none", calls |-> <<>>]

CheckpointCall == [call |-> "create_checkpoint"]
TriggerCallOf(t, data) == [call |-> "trigger_transition", transition |-> t, data |-> data]
SendCall(activity) == [call |-> "send_activity", activity |-> activity]

(* on_turn, the handler raising e ("none": it returns): what the turn did  *)
(* and the storage after it                                                *)
on_turn(st, ctx, e, key, clock) ==
    IF e = "none" THEN [turn |-> NoTurn, st |-> st]
    ELSE LET error_id == _log_error(clock)
             error_type == _categorize_error(e)
         IN IF error_type \in {"system_error", "state_error"}
            THEN [turn |-> [raised |-> e, propagated |-> e,
                            calls |-> <<CheckpointCall>>],
                  st |-> sm_create_checkpoint(st, clock)]
            ELSE LET r == trigger_transition(st, ctx, "error", key, clock)
                     called == <<TriggerCallOf("error", None)>>
                 IN IF r.exc # "none"
                    THEN [turn |-> [raised |-> e, propagated |-> r.exc,
                                    calls |-> called],
                          st |-> r.st]
                    ELSE [turn |-> [raised |-> e, propagated |-> "none",
                                    calls |-> Append(called,
                                                SendCall(ErrorActivity(error_id)))],
                          st |-> r.st]

OnTurn ==
    \E e \in ExceptionTypes \cup {"none"} :
       LET r == on_turn(storage, ManagerConvId, e, sm_key, now) IN
       /\ turn' = r.turn
       /\ storage' = r.st
       /\ UNCHANGED <<sm_key, loaded, saved, sm_outcome, convVars, toolVars,
                      sm_error_count, handle_calls, clear_calls, deleted>>

(* StateManager.handle_error(context, error); clear_state deletes the      *)
(* context's activity when it has one                                      *)
SmHandleError ==
    /\ handle_calls < MaxHandleCalls
    /\ \E has_activity \in BOOLEAN :
          LET r == sm_handle_error(sm_error_count) IN
          /\ sm_error_count' = r.count
          /\ handle_calls' = handle_calls + 1
          /\ clear_calls' = IF r.cleared THEN clear_calls + 1 ELSE clear_calls
          /\ deleted' = IF r.cleared /\ has_activity
                        THEN Append(deleted, "activity") ELSE deleted
    /\ UNCHANGED <<storeVars, convVars, turn, toolVars>>

TurnTick ==
    /\ ticks < MaxTurnTicks
    /\ Tick

----------------------------------------------------------------------------
(* SecretRotator: the rotation lock (scripts/rotate_secrets.py).  Each      *)
(* process runs `run` once; the calls on the lock file are separate system *)
(* calls and interleave with those of the other processes.                 *)

(* The bot's state other than the clock *)
botRest == <<conv, outcome, script_pos, at_checkpoint, storeVars, errorVars>>

(* What the lock steps leave alone *)
lockRest == <<botRest, rotVars, pkgVars, mpVars, secVars, scmVars, tbVars, caVars, upVars>>

(* What the rotation calls leave alone, the lock aside *)
rotRest == <<botRest, now, ticks, pkgVars, mpVars, secVars, scmVars, tbVars, caVars, upVars>>

(* What clpm leaves alone *)
pkgRest == <<botRest, now, ticks, lockVars, rotVars, mpVars, secVars, scmVars, tbVars, caVars, upVars>>

Procs == {"p1", "p2"}

(* timedelta(hours=1), in seconds *)
StaleAfter == 3600

(* Time that passes between two steps of the rotation processes *)
LockTimeStep == 1800

InitLock ==
    /\ lock = None
    /\ pc = [p \in Procs |-> "start"]
    /\ stale_used = FALSE

(* acquire_lock: self.lock_file.exists() *)
LockExists(p) ==
    /\ pc[p] = "start"
    /\ pc' = [pc EXCEPT ![p] = IF lock = None THEN "touch" ELSE "stat"]
    /\ UNCHANGED <<lock, stale_used, now, ticks, lockRest>>

(* acquire_lock: the age of the file from stat().st_mtime; a fresh lock    *)
(* returns False and so does a stat() that raises because the file is gone *)
LockStat(p) ==
    /\ pc[p] = "stat"
    /\ IF lock = None
       THEN pc' = [pc EXCEPT ![p] = "refused"] /\ UNCHANGED stale_used
       ELSE IF now - lock.t < StaleAfter
       THEN pc' = [pc EXCEPT ![p] = "refused"] /\ UNCHANGED stale_used
       ELSE pc' = [pc EXCEPT ![p] = "touch"] /\ stale_used' = TRUE
    /\ UNCHANGED <<lock, now, ticks, lockRest>>

(* acquire_lock: self.lock_file.touch(); return True *)
LockTouch(p) ==
    /\ pc[p] = "touch"
    /\ lock' = Iso(now)
    /\ pc' = [pc EXCEPT ![p] = "rotating"]
    /\ UNCHANGED <<stale_used, now, ticks, lockRest>>

(* run: the rotation of the components, between acquire and release *)
Rotate(p) ==
    /\ pc[p] = "rotating"
    /\ pc' = [pc EXCEPT ![p] = "release"]
    /\ UNCHANGED <<lock, stale_used, now, ticks, lockRest>>

(* release_lock, in run's finally: unlink the file if it exists *)
ReleaseLock(p) ==
    /\ pc[p] = "release"
    /\ lock' = None
    /\ pc' = [pc EXCEPT ![p] = "done"]
    /\ UNCHANGED <<stale_used, now, ticks, lockRest>>

LockTick ==
    /\ ticks < MaxLockTicks
    /\ now' = now + LockTimeStep
    /\ ticks' = ticks + 1
    /\ UNCHANGED <<lockVars, lockRest>>

(* Between its successful acquire_lock and its release_lock *)
HoldsLock(p) == pc[p] \in {"rotating", "release"}

NextLock ==
    \/ \E p \in Procs : LockExists(p)
    \/ \E p \in Procs : LockStat(p)
    \/ \E p \in Procs : LockTouch(p)
    \/ \E p \in Procs : Rotate(p)
    \/ \E p \in Procs : ReleaseLock(p)
    \/ LockTick

----------------------------------------------------------------------------
(* rotate_snowflake_keys of "scripts/rotate_secrets 2.py".  A key is named  *)
(* by the number of its generation, 0 for the key installed before any     *)
(* rotation; None is a file that does not exist.                           *)

ExitCodes == {0, 1}

(* The key of the n-th generation *)
Key(n) == [kind |-> "key", gen |-> n]

KeyFiles(key, new, backup) == [key |-> key, new |-> new, backup |-> backup]

(* backup_key_files: every key file whose name has no "new" in it is moved *)
(* to backup/snowflake_bot_key.<date><suffix>                              *)
backup_key_files(f) ==
    IF f.key # None THEN [f EXCEPT !.backup = f.key, !.key = None] ELSE f

RotResult(op, ret, ran, notes) == [op |-> op, ret |-> ret, ran |-> ran, notes |-> notes]

(* A rotation that moves the old key to the backup before Snowflake is     *)
(* updated                                                                 *)
rotate_snowflake_keys_backup_first(f, sf, n, gen_rc, pub_rc, alter_rc) ==
    LET f1 == IF gen_rc = 0 THEN [f EXCEPT !.new = Key(n)] ELSE f IN
    IF gen_rc # 0
    THEN [f |-> f1, sf |-> sf, ret |-> FALSE, ran |-> <<gen_rc>>]
    ELSE IF pub_rc # 0
    THEN [f |-> f1, sf |-> sf, ret |-> FALSE, ran |-> <<gen_rc, pub_rc>>]
    ELSE LET f2 == backup_key_files(f1) IN
         IF alter_rc # 0
         THEN [f |-> f2, sf |-> sf, ret |-> FALSE, ran |-> <<gen_rc, pub_rc, alter_rc>>]
         ELSE [f |-> [f2 EXCEPT !.key = f2.new, !.new = None],
               sf |-> Key(n), ret |-> TRUE, ran |-> <<gen_rc, pub_rc, alter_rc>>]

(* The function with the exit codes of its three commands: the files, the  *)
(* key Snowflake holds, the commands that ran with their exit codes, and   *)
(* the value returned                                                      *)
rotate_snowflake_keys(f, sf, n, gen_rc, pub_rc, alter_rc) ==
    LET f1 == IF gen_rc = 0 THEN [f EXCEPT !.new = Key(n)] ELSE f IN
    IF gen_rc # 0
    THEN [f |-> f1, sf |-> sf, ret |-> FALSE, ran |-> <<gen_rc>>]
    ELSE IF pub_rc # 0
    THEN [f |-> f1, sf |-> sf, ret |-> FALSE, ran |-> <<gen_rc, pub_rc>>]
    ELSE IF alter_rc # 0
    THEN [f |-> f1, sf |-> sf, ret |-> FALSE, ran |-> <<gen_rc, pub_rc, alter_rc>>]
    ELSE LET f2 == backup_key_files(f1)
             f3 == [f2 EXCEPT !.key = f2.new, !.new = None]
         IN [f |-> f3, sf |-> Key(n), ret |-> TRUE, ran |-> <<gen_rc, pub_rc, alter_rc>>]

RotateSnowflakeKeys ==
    /\ keygen < MaxKeys
    /\ \E gen_rc \in ExitCodes, pub_rc \in ExitCodes, alter_rc \in ExitCodes :
          LET r == rotate_snowflake_keys(p8, sf_key, keygen + 1,
                                         gen_rc, pub_rc, alter_rc) IN
          /\ p8' = r.f
          /\ sf_key' = r.sf
          /\ keygen' = keygen + 1
          /\ rot' = RotResult("rotate_snowflake_keys", r.ret, r.ran, <<>>)
    /\ UNCHANGED <<pem, vault, lockVars, rotRest>>

----------------------------------------------------------------------------
(* SecretRotator (scripts/rotate_secrets.py) *)

(* rotate_snowflake_keys of the class: the exit status of genrsa is not    *)
(* looked at (gen_ok: the new key file was written), the snowsql command   *)
(* raises when it exits non-zero, and renaming a new key file that does    *)
(* not exist raises after the old key has been moved to the backup         *)
SecretRotator_rotate_snowflake_keys(f, sf, n, gen_ok, alter_rc) ==
    LET f1 == IF gen_ok THEN [f EXCEPT !.new = Key(n)] ELSE f IN
    IF alter_rc # 0
    THEN [f |-> f1, sf |-> sf, ret |-> FALSE]
    ELSE LET f2 == backup_key_files(f1)
             sf2 == IF gen_ok THEN Key(n) ELSE None
         IN IF f2.new = None
            THEN [f |-> f2, sf |-> sf2, ret |-> FALSE]
            ELSE [f |-> [f2 EXCEPT !.key = f2.new, !.new = None],
                  sf |-> sf2, ret |-> TRUE]

(* rotate_keyvault_secret: set_secret raising is caught and gives False    *)
rotate_keyvault_secret(v, secret_name, new_value, kv_ok) ==
    IF kv_ok
    THEN [v |-> [v EXCEPT ![secret_name] = new_value], ret |-> TRUE]
    ELSE [v |-> v, ret |-> FALSE]

(* rotate_bot_credentials: False when the az output holds "error"; the     *)
(* value rotate_keyvault_secret returns is dropped                         *)
rotate_bot_credentials(v, n, az_error, kv_ok) ==
    IF az_error
    THEN [v |-> v, ret |-> FALSE]
    ELSE [v |-> rotate_keyvault_secret(v, "bot-app-password", Key(n), kv_ok).v,
          ret |-> TRUE]

(* rotate_state_encryption: the value rotate_keyvault_secret returns is    *)
(* dropped                                                                 *)
rotate_state_encryption(v, n, kv_ok) ==
    [v |-> rotate_keyvault_secret(v, "state-encryption-key", Key(n), kv_ok).v,
     ret |-> TRUE]

(* send_notification(level, message) with a webhook configured *)
Notification(ok, name) ==
    IF ok THEN [level |-> "SUCCESS", message |-> <<"Successfully rotated ", name>>]
    ELSE [level |-> "ERROR", message |-> <<"Failed to rotate ", name>>]

(* acquire_lock by the only process there is *)
acquire_lock(l, clock) == l = None \/ clock - l.t >= StaleAfter

RunInputs ==
    [gen_ok : BOOLEAN, alter_rc : ExitCodes, az_error : BOOLEAN,
     kv_bot : BOOLEAN, kv_state : BOOLEAN]

(* run(None): the three components in order, a notification after each    *)
RunAll ==
    /\ keygen < MaxKeys
    /\ \E in \in RunInputs :
          IF ~acquire_lock(lock, now)
          THEN /\ rot' = RotResult("run", FALSE, in, <<>>)
               /\ UNCHANGED <<pem, sf_key, vault, keygen, lock>>
          ELSE LET s1 == SecretRotator_rotate_snowflake_keys(
                             pem, sf_key, keygen + 1, in.gen_ok, in.alter_rc)
                   b == rotate_bot_credentials(vault, keygen + 2, in.az_error, in.kv_bot)
                   e == rotate_state_encryption(b.v, keygen + 3, in.kv_state)
               IN /\ pem' = s1.f
                  /\ sf_key' = s1.sf
                  /\ vault' = e.v
                  /\ keygen' = keygen + 3
                  /\ lock' = None
                  /\ rot' = RotResult("run", TRUE, in,
                                <<Notification(s1.ret, "Snowflake keys"),
                                  Notification(b.ret, "Bot credentials"),
                                  Notification(e.ret, "State encryption")>>)
    /\ UNCHANGED <<p8, pc, stale_used, rotRest>>

(* rotate_bot_credentials and rotate_state_encryption called on their own, *)
(* as run(component) does; rot.ret is the value the method returned        *)
RotateComponent ==
    /\ keygen < MaxKeys
    /\ \E in \in RunInputs, c \in {"bot", "state"} :
          LET r == IF c = "bot"
                   THEN rotate_bot_credentials(vault, keygen + 1, in.az_error, in.kv_bot)
                   ELSE rotate_state_encryption(vault, keygen + 1, in.kv_state)
          IN /\ vault' = r.v
             /\ keygen' = keygen + 1
             /\ rot' = RotResult(c, r.ret, in, <<>>)
    /\ UNCHANGED <<p8, pem, sf_key, lockVars, rotRest>>

InitRotate ==
    /\ p8 = KeyFiles(Key(0), None, None)
    /\ pem = KeyFiles(Key(0), None, None)
    /\ sf_key = Key(0)
    /\ keygen = 0
    /\ vault = [k \in {"bot-app-password", "state-encryption-key"} |-> Key(0)]
    /\ rot = RotResult("none", FALSE, <<>>, <<>>)

(* A rotation run over a key directory with or without a key in it *)
InitRotateRun ==
    /\ p8 \in {KeyFiles(Key(0), None, None), KeyFiles(None, None, None)}
    /\ pem = KeyFiles(Key(0), None, None)
    /\ sf_key = Key(0)
    /\ keygen = 0
    /\ vault = [k \in {"bot-app-password", "state-encryption-key"} |-> Key(0)]
    /\ rot = RotResult("none", FALSE, <<>>, <<>>)

NextRotate ==
    \/ RotateSnowflakeKeys
    \/ RunAll
    \/ RotateComponent

----------------------------------------------------------------------------
(* clpm: PackageManager.add_package (clpm.py).  Every call is one run of   *)
(* the command line tool, which loads the graph from the ontology file.    *)

Packages == {"requests", "pytest"}
DepTypes == {"core", "dev", "optional"}

(* _get_all_dependencies: the packages of the graph *)
_get_all_dependencies(g) ==
    { [name |-> n, dep_type |-> g[n].dep_type, source |-> g[n].source] :
        n \in {m \in Packages : g[m] # None} }

(* An update that writes the file back without the new entries *)
_update_pyproject_toml_drops(py, deps) == py

(* _update_pyproject_toml: core and dev dependencies are appended to their *)
(* lists when not there; nothing is removed                                *)
_update_pyproject_toml(py, deps) ==
    py \cup { <<d.name, d.dep_type>> : d \in {e \in deps : e.dep_type \in {"core", "dev"}} }

(* _update_environment_yml: each dependency is appended to the conda or    *)
(* the pip list when not there; nothing is removed                         *)
_update_environment_yml(env, deps) ==
    env \cup { <<d.name, d.source>> : d \in deps }

(* _update_requirements_txt: rewritten with the pip dependencies, left as  *)
(* it is when there are none                                               *)
_update_requirements_txt(rq, deps) ==
    LET pip_deps == { d.name : d \in {e \in deps : e.source = "pip"} } IN
    IF pip_deps # {} THEN pip_deps ELSE rq

(* Where a call is cut short: a write that raises, or the process dying    *)
(* right after a write                                                     *)
Faults ==
    {"none", "fail_ttl", "fail_pyproject", "fail_environment",
     "fail_requirements", "crash_1", "crash_2", "crash_3", "crash_4"}

InstallResults == {"ok", "failed", "timeout"}

(* The outcomes of conda and pip that add_package tells apart *)
InstallCases == {<<"ok", "ok">>, <<"timeout", "ok">>, <<"failed", "ok">>, <<"failed", "failed">>, <<"failed", "timeout">>}

AddResult(g, py, env, rq, ret, written) ==
    [ttl |-> g, pyproject |-> py, envyml |-> env, reqs |-> rq,
     ret |-> ret, written |-> written]

(* The installation: conda when asked for, pip when conda was not asked    *)
(* for or failed; after pip the source is rewritten and the ontology       *)
(* serialized again                                                        *)
Install(g, py, env, rq, written, pkg, use_conda, conda_res, pip_res) ==
    IF use_conda /\ conda_res = "ok"
    THEN AddResult(g, py, env, rq, "True", written)
    ELSE IF use_conda /\ conda_res = "timeout"
    THEN AddResult(g, py, env, rq, "False", written)
    ELSE IF pip_res = "ok"
    THEN AddResult([g EXCEPT ![pkg].source = "pip"], py, env, rq, "True", written)
    ELSE AddResult(g, py, env, rq, "False", written)

(* add_package: the files after the call, the value returned ("crashed"    *)
(* when the process died) and the files written, in order                  *)
add_package(g, py, env, rq, pkg, dep_type, use_conda, fault, conda_res, pip_res) ==
    LET g1 == [g EXCEPT ![pkg] = [dep_type |-> dep_type,
                                  source |-> IF use_conda THEN "conda" ELSE "pip"]]
        deps == _get_all_dependencies(g1)
        py1 == _update_pyproject_toml(py, deps)
        env1 == IF fault = "fail_environment" THEN env
                ELSE _update_environment_yml(env, deps)
        w3 == IF fault = "fail_environment" THEN <<"ttl", "pyproject">>
              ELSE <<"ttl", "pyproject", "envyml">>
        rq1 == _update_requirements_txt(rq, deps)
        w4 == IF rq1 # rq \/ \E d \in deps : d.source = "pip"
              THEN Append(w3, "reqs") ELSE w3
    IN IF fault = "fail_ttl" THEN AddResult(g, py, env, rq, "False", <<>>)
       ELSE IF fault = "crash_1" THEN AddResult(g1, py, env, rq, "crashed", <<"ttl">>)
       ELSE IF fault = "fail_pyproject" THEN AddResult(g1, py, env, rq, "False", <<"ttl">>)
       ELSE IF fault = "crash_2"
       THEN AddResult(g1, py1, env, rq, "crashed", <<"ttl", "pyproject">>)
       ELSE IF fault = "crash_3" THEN AddResult(g1, py1, env1, rq, "crashed", w3)
       ELSE IF fault = "fail_requirements" THEN AddResult(g1, py1, env1, rq, "False", w3)
       ELSE IF fault = "crash_4" THEN AddResult(g1, py1, env1, rq1, "crashed", w4)
       ELSE Install(g1, py1, env1, rq1, w4, pkg, use_conda, conda_res, pip_res)

(* The package is in none of the four files *)
Unrecorded(pkg) ==
    /\ ttl[pkg] = None
    /\ \A e \in pyproject : e[1] # pkg
    /\ \A e \in envyml : e[1] # pkg
    /\ pkg \notin reqs

AddPackage ==
    \E pkg \in Packages, dep_type \in DepTypes, use_conda \in BOOLEAN,
       fault \in Faults, res \in InstallCases :
       /\ add.n < MaxAdds
       /\ ttl[pkg] # None =>
             /\ ttl[pkg].dep_type = dep_type
             /\ ttl[pkg].source = IF use_conda THEN "conda" ELSE "pip"
       /\ LET r == add_package(ttl, pyproject, envyml, reqs, pkg, dep_type,
                               use_conda, fault, res[1], res[2]) IN
          /\ ttl' = r.ttl
          /\ pyproject' = r.pyproject
          /\ envyml' = r.envyml
          /\ reqs' = r.reqs
          /\ add' = [pkg |-> pkg, dep_type |-> dep_type, use_conda |-> use_conda,
                     fault |-> fault, ret |-> r.ret, written |-> r.written,
                     fresh |-> Unrecorded(pkg), n |-> add.n + 1]
       /\ UNCHANGED pkgRest

InitPkg ==
    /\ ttl = [n \in Packages |-> None]
    /\ pyproject = {}
    /\ envyml = {}
    /\ reqs = {}
    /\ add = [pkg |-> "", dep_type |-> "", use_conda |-> FALSE, fault |-> "none",
              ret |-> "none", written |-> <<>>, fresh |-> FALSE, n |-> 0]

NextPkg ==
    \/ AddPackage

(* What scripts/manage_packages leaves alone *)
mpRest == <<botRest, now, ticks, lockVars, rotVars, pkgVars, secVars, scmVars, tbVars, caVars, upVars>>

(* ---------------------------------------------------------------------- *)
(* src/scripts/manage_packages.py: PackageManager                          *)
(* ---------------------------------------------------------------------- *)

MaxMpCalls == 2

MpNames == {"test-package", "test_package", "test"}

MpVersions == {"1.0.0", "2.0.0"}

MpTypes == {"CoreDependency", "DevelopmentDependency", "InvalidDependency"}

(* packaging.version.parse on the versions above *)
version_parse(v) == IF v = "1.0.0" THEN 1 ELSE 2

(* PKG[package_name.replace("-", "_")] *)
PkgUri(package_name) ==
    IF package_name = "test-package" THEN "test_package" ELSE package_name

(* dep.startswith(package_name) for a line that begins with the name dep_name *)
StartsWith(dep_name, package_name) ==
    dep_name = package_name \/ package_name = "test"

(* A line "name=version" or "name>=version" of a dependency file *)
DepLine(package_name, version) == [name |-> package_name, version |-> version]

_package_exists(g, package_name) ==
    <<PkgUri(package_name), "rdf:type", "pkg:Package">> \in g

(* validate_package_request without the check for an existing package *)
validate_package_request_type_only(g, package_name, version, dependency_type) ==
    <<dependency_type, "rdf:type", "pkg:DependencyType">> \in g

validate_package_request(g, package_name, version, dependency_type) ==
    IF <<dependency_type, "rdf:type", "pkg:DependencyType">> \notin g THEN FALSE
    ELSE IF _package_exists(g, package_name) THEN FALSE
    ELSE TRUE

(* The versions after "=" in environment.yml, then after ">=" in the        *)
(* project dependencies of pyproject.toml                                   *)
_get_package_constraints(env, py, package_name) ==
    LET hit(d) == StartsWith(d.name, package_name)
        ver(s) == [i \in 1..Len(s) |-> s[i].version]
    IN ver(SelectSeq(env, hit)) \o ver(SelectSeq(py.dependencies, hit))

(* What SecurityCheck.check_package_security returns: (True, None),        *)
(* (False, vulns) and (False, None)                                        *)
SecurityResults ==
    { [is_secure |-> TRUE, vulns |-> FALSE],
      [is_secure |-> FALSE, vulns |-> TRUE],
      [is_secure |-> FALSE, vulns |-> FALSE] }

_check_dependency_constraints(env, py, package_name, version_str, sec) ==
    LET constraints == _get_package_constraints(env, py, package_name) IN
    IF constraints = <<>> THEN TRUE
    ELSE IF \E i \in 1..Len(constraints) :
               ~(version_parse(version_str) >= version_parse(constraints[i]))
    THEN FALSE
    ELSE IF ~sec.is_secure /\ sec.vulns THEN FALSE
    ELSE TRUE

(* environment.yml after _add_conda_package has written it *)
_add_conda_package(env, package_name, version) ==
    Append(env, DepLine(package_name, version))

(* pyproject.toml after _add_pip_package has written it *)
_add_pip_package(py, package_name, version, dependency_type) ==
    IF dependency_type = "CoreDependency"
    THEN [py EXCEPT !.dependencies = Append(@, DepLine(package_name, version))]
    ELSE IF dependency_type = "DevelopmentDependency"
    THEN [py EXCEPT !.dev = Append(@, DepLine(package_name, version))]
    ELSE py

(* The graph after _update_ontology; the file is serialized from it *)
_update_ontology(g, package_name, version, dependency_type) ==
    LET pkg_uri == PkgUri(package_name) IN
    g \cup { <<pkg_uri, "rdf:type", "pkg:Package">>,
             <<pkg_uri, "rdfs:label", package_name>>,
             <<pkg_uri, "pkg:hasVersion", version>>,
             <<pkg_uri, "pkg:dependencyType", dependency_type>> }

MpResult(g, file, env, py, ret) ==
    [graph |-> g, ttl |-> file, env |-> env, py |-> py, ret |-> ret]

(* The try block shared by add_package and update_package: the file is     *)
(* written, the install command runs with check=True, then the ontology is *)
(* updated; _run_validation catches its own exceptions and its result is   *)
(* ignored                                                                 *)
MpInstall(g, file, env, py, package_name, version, dependency_type, use_conda, install_rc) ==
    LET env1 == IF use_conda THEN _add_conda_package(env, package_name, version)
                ELSE env
        py1 == IF use_conda THEN py
               ELSE _add_pip_package(py, package_name, version, dependency_type)
        g1 == _update_ontology(g, package_name, version, dependency_type)
    IN IF install_rc # 0 THEN MpResult(g, file, env1, py1, FALSE)
       ELSE MpResult(g1, g1, env1, py1, TRUE)

mp_add_package(g, file, env, py, package_name, version, dependency_type, use_conda, sec, install_rc) ==
    IF ~validate_package_request(g, package_name, version, dependency_type)
    THEN MpResult(g, file, env, py, FALSE)
    ELSE IF ~_check_dependency_constraints(env, py, package_name, version, sec)
    THEN MpResult(g, file, env, py, FALSE)
    ELSE MpInstall(g, file, env, py, package_name, version, dependency_type,
                   use_conda, install_rc)

mp_update_package(g, file, env, py, package_name, version, use_conda, sec, install_rc) ==
    IF ~_package_exists(g, package_name)
    THEN MpResult(g, file, env, py, FALSE)
    ELSE IF ~_check_dependency_constraints(env, py, package_name, version, sec)
    THEN MpResult(g, file, env, py, FALSE)
    ELSE LET dependency_type ==
                 CHOOSE t \in MpTypes :
                     <<PkgUri(package_name), "pkg:dependencyType", t>> \in g
         IN MpInstall(g, file, env, py, package_name, version, dependency_type,
                      use_conda, install_rc)

MpAddPackage ==
    \E package_name \in MpNames, version \in MpVersions,
       dependency_type \in MpTypes, use_conda \in BOOLEAN,
       sec \in SecurityResults, install_rc \in ExitCodes :
       /\ mp.n < MaxMpCalls
       /\ LET r == mp_add_package(mp_graph, mp_ttl, mp_env, mp_py, package_name,
                                  version, dependency_type, use_conda, sec,
                                  install_rc) IN
          /\ mp_graph' = r.graph
          /\ mp_ttl' = r.ttl
          /\ mp_env' = r.env
          /\ mp_py' = r.py
          /\ mp' = [op |-> "add_package", name |-> package_name,
                    dep_type |-> dependency_type, ret |-> r.ret, n |-> mp.n + 1]
          /\ mp_added' = IF r.ret THEN mp_added \cup {package_name} ELSE mp_added
       /\ UNCHANGED mpRest

MpUpdatePackage ==
    \E package_name \in MpNames, version \in MpVersions, use_conda \in BOOLEAN,
       sec \in SecurityResults, install_rc \in ExitCodes :
       /\ mp.n < MaxMpCalls
       /\ LET r == mp_update_package(mp_graph, mp_ttl, mp_env, mp_py,
                                     package_name, version, use_conda, sec,
                                     install_rc) IN
          /\ mp_graph' = r.graph
          /\ mp_ttl' = r.ttl
          /\ mp_env' = r.env
          /\ mp_py' = r.py
          /\ mp' = [op |-> "update_package", name |-> package_name,
                    dep_type |-> "", ret |-> r.ret, n |-> mp.n + 1]
          /\ UNCHANGED mp_added
       /\ UNCHANGED mpRest

(* The workspace of the tests: an ontology that declares CoreDependency    *)
(* and DevelopmentDependency, and two dependency files without entries     *)
MpOntology ==
    { <<"CoreDependency", "rdf:type", "pkg:DependencyType">>,
      <<"CoreDependency", "rdfs:label", "CoreDependency">>,
      <<"DevelopmentDependency", "rdf:type", "pkg:DependencyType">>,
      <<"DevelopmentDependency", "rdfs:label", "DevelopmentDependency">> }

InitMp ==
    /\ mp_graph = MpOntology
    /\ mp_ttl = MpOntology
    /\ mp_env = <<>>
    /\ mp_py = [dependencies |-> <<>>, dev |-> <<>>]
    /\ mp = [op |-> "", name |-> "", dep_type |-> "", ret |-> FALSE, n |-> 0]
    /\ mp_added = {}

NextMp ==
    \/ MpAddPackage
    \/ MpUpdatePackage

(* What the security checks of clpm leave alone *)
secRest == <<botRest, now, ticks, lockVars, rotVars, pkgVars, mpVars, scmVars, tbVars, caVars, upVars>>

(* ---------------------------------------------------------------------- *)
(* src/clpm.py: SecurityIssue.to_ontology_triples, SecurityChecker         *)
(* ---------------------------------------------------------------------- *)

MaxIssues == 2
MaxVulnCalls == 2

CveIds == {"TEST-001", "TEST-002"}

SecPackages == {"test-pkg"}

(* A cvss_score: None, a number, or the text a scanner's JSON gave *)
Cvss(n) == [kind |-> "float", val |-> n]
CvssText(n) == [kind |-> "str", val |-> n]

(* fixed_version and mitigation_status: "" stands for None and for "",     *)
(* which the code does not tell apart                                      *)
SecurityIssue(cve_id, severity, fixed_version, source, cvss_score, mitigation_status) ==
    [cve_id |-> cve_id, severity |-> severity, fixed_version |-> fixed_version,
     source |-> source, cvss_score |-> cvss_score,
     mitigation_status |-> mitigation_status]

(* The triples of one vulnerability URI, the objects of each predicate;    *)
(* a source literal is the list of names joined by ", "                    *)
NoTriples ==
    [typed |-> FALSE, affectsPackage |-> {}, severity |-> {}, source |-> {},
     fixedVersion |-> {}, cvssScore |-> {}, mitigationStatus |-> {}]

severity_order(s) ==
    CASE s = "Critical" -> 4
      [] s = "High" -> 3
      [] s = "Medium" -> 2
      [] s = "Low" -> 1
      [] OTHER -> 0

(* existing_data[pred]: an object of the predicate *)
Existing(objs) == CHOOSE o \in objs : TRUE

(* The severity triples after every call has stored the severity it got *)
UpdateSeverity_always(e, issue) == {issue.severity}

(* The severity triples after the severity step *)
UpdateSeverity(e, issue) ==
    LET existing_severity ==
            IF e.severity = {} THEN "Unknown" ELSE Existing(e.severity)
    IN IF severity_order(issue.severity) > severity_order(existing_severity)
       THEN {issue.severity}
       ELSE e.severity

UpdateSource(e, issue) ==
    IF e.source = {} THEN {<<issue.source>>}
    ELSE LET s == Existing(e.source) IN
         IF \A i \in 1..Len(s) : s[i] # issue.source
         THEN {Append(s, issue.source)}
         ELSE e.source

UpdateFixedVersion(e, issue) ==
    IF issue.fixed_version # ""
       /\ (e.fixedVersion = {} \/ Existing(e.fixedVersion) # issue.fixed_version)
    THEN {issue.fixed_version}
    ELSE e.fixedVersion

UpdateMitigation(e, issue) ==
    IF issue.mitigation_status # ""
       /\ (e.mitigationStatus = {}
           \/ Existing(e.mitigationStatus) # issue.mitigation_status)
    THEN {issue.mitigation_status}
    ELSE e.mitigationStatus

(* to_ontology_triples on the triples e of the issue's URI: the triples    *)
(* afterwards, and whether it raised; comparing a cvss_score that is text  *)
(* with the existing float raises TypeError after the earlier steps        *)
to_ontology_triples(e, issue, package) ==
    LET e1 == [e EXCEPT !.typed = TRUE,
                        !.affectsPackage = @ \cup {package},
                        !.severity = UpdateSeverity(e, issue),
                        !.source = UpdateSource(e, issue),
                        !.fixedVersion = UpdateFixedVersion(e, issue)]
        existing_cvss == IF e.cvssScore = {} THEN 0 ELSE Existing(e.cvssScore)
    IN IF issue.cvss_score = None
       THEN [g |-> [e1 EXCEPT !.mitigationStatus = UpdateMitigation(e, issue)],
             raised |-> FALSE]
       ELSE IF issue.cvss_score.kind = "str"
       THEN [g |-> e1, raised |-> TRUE]
       ELSE [g |-> [e1 EXCEPT
                      !.cvssScore = IF issue.cvss_score.val > existing_cvss
                                    THEN {issue.cvss_score.val} ELSE @,
                      !.mitigationStatus = UpdateMitigation(e, issue)],
             raised |-> FALSE]

(* The issues a scanner called name reports for the package *)
ScanIssues(name) ==
    { SecurityIssue(c, "High", "1.0.0", name, None, "") : c \in CveIds }
    \cup { SecurityIssue(c, "Medium", "1.0.0", name, CvssText(7), "") :
              c \in CveIds }

RECURSIVE SeqsUpTo(_, _)
SeqsUpTo(S, n) ==
    IF n = 0 THEN {<<>>}
    ELSE LET shorter == SeqsUpTo(S, n - 1) IN
         shorter \cup { Append(s, x) : s \in shorter, x \in S }

(* What scan_package does: it raises, or returns a list of issues *)
ScanResults(name) ==
    { [raises |-> TRUE, issues |-> <<>>] }
    \cup { [raises |-> FALSE, issues |-> s] :
              s \in SeqsUpTo(ScanIssues(name), MaxIssues) }

Scanner(name, kind, res) ==
    [name |-> name, kind |-> kind, raises |-> res.raises, issues |-> res.issues]

(* self.scanners: what __init__ registered, or the mock scanners of the    *)
(* tests                                                                   *)
ScannerLists ==
    {<<>>}
    \cup { <<Scanner("safety", "SafetyScanner", r)>> :
              r \in ScanResults("safety") }
    \cup { <<Scanner("pip-audit", "PipAuditScanner", r)>> :
              r \in ScanResults("pip-audit") }
    \cup { <<Scanner("safety", "SafetyScanner", r),
             Scanner("pip-audit", "PipAuditScanner", q)>> :
              r \in ScanResults("safety"), q \in ScanResults("pip-audit") }
    \cup { <<Scanner("scanner1", "MockScanner", r),
             Scanner("scanner2", "MockScanner", q)>> :
              r \in ScanResults("scanner1"), q \in ScanResults("scanner2") }

(* The PipAuditScanner() of the fallback: is_available and its scan *)
Fallbacks ==
    { [available |-> a, raises |-> r.raises, issues |-> r.issues] :
         a \in BOOLEAN,
         r \in { q \in ScanResults("pip-audit") : Len(q.issues) <= 1 } }

(* for issue in issues: _add_to_ontology, then all_issues.append; an       *)
(* exception leaves the loop                                               *)
RECURSIVE AddIssues(_, _, _, _)
AddIssues(st, issues, i, package) ==
    IF i > Len(issues) THEN st
    ELSE LET issue == issues[i]
             r == to_ontology_triples(st.g[issue.cve_id], issue, package)
             g1 == [st.g EXCEPT ![issue.cve_id] = r.g]
         IN IF r.raised THEN [st EXCEPT !.g = g1]
            ELSE AddIssues([st EXCEPT !.g = g1,
                                      !.all_issues = Append(@, issue)],
                           issues, i + 1, package)

(* One pass of the loop over self.scanners *)
ScanOne(st, scanner, package) ==
    IF scanner.raises THEN st
    ELSE IF scanner.kind = "SafetyScanner" /\ scanner.issues = <<>>
    THEN [st EXCEPT !.safety_auth_required = TRUE]
    ELSE IF scanner.issues # <<>>
    THEN AddIssues([st EXCEPT !.is_safe = FALSE], scanner.issues, 1, package)
    ELSE st

RECURSIVE ScanAll(_, _, _, _)
ScanAll(st, scanners, i, package) ==
    IF i > Len(scanners) THEN st
    ELSE ScanAll(ScanOne(st, scanners[i], package), scanners, i + 1, package)

(* Deduplicate issues by CVE ID *)
RECURSIVE Deduplicate(_, _, _, _)
Deduplicate(all_issues, i, seen, unique_issues) ==
    IF i > Len(all_issues) THEN unique_issues
    ELSE IF all_issues[i].cve_id \notin seen
    THEN Deduplicate(all_issues, i + 1, seen \cup {all_issues[i].cve_id},
                     Append(unique_issues, all_issues[i]))
    ELSE Deduplicate(all_issues, i + 1, seen, unique_issues)

check_package(g, scanners, fallback, package) ==
    LET st0 == [g |-> g, all_issues |-> <<>>, is_safe |-> TRUE,
                safety_auth_required |-> FALSE]
        st1 == ScanAll(st0, scanners, 1, package)
        fb_used == st1.safety_auth_required /\ st1.all_issues = <<>>
        st2 == IF fb_used /\ fallback.available /\ ~fallback.raises
                  /\ fallback.issues # <<>>
               THEN AddIssues([st1 EXCEPT !.is_safe = FALSE], fallback.issues,
                              1, package)
               ELSE st1
    IN [g |-> st2.g, is_safe |-> st2.is_safe,
        issues |-> Deduplicate(st2.all_issues, 1, {}, <<>>),
        fb_scanned |-> fb_used /\ fallback.available /\ ~fallback.raises]

CheckPackage ==
    \E scanners \in ScannerLists, fallback \in Fallbacks, package \in SecPackages :
       /\ sec_call.op = "none"
       /\ LET r == check_package(sec_graph, scanners, fallback, package) IN
          /\ sec_graph' = r.g
          /\ sec_call' = [op |-> "check_package", scanners |-> scanners,
                          fallback |-> fallback, fb_scanned |-> r.fb_scanned,
                          is_safe |-> r.is_safe, issues |-> r.issues]
       /\ UNCHANGED <<vuln_call, secRest>>

(* The issues to_ontology_triples is called with on its own *)
VulnIssues ==
    { SecurityIssue(c, s, f, src, cv, m) :
         c \in {"TEST-001"},
         s \in {"Unknown", "Low", "Medium", "High", "Critical", "Moderate"},
         f \in {"", "1.0.0"},
         src \in {"safety", "pip-audit"},
         cv \in {None, Cvss(5), CvssText(7)},
         m \in {"", "patched"} }

ToOntologyTriples ==
    \E issue \in VulnIssues, package \in SecPackages :
       /\ vuln_call.n < MaxVulnCalls
       /\ LET r == to_ontology_triples(sec_graph[issue.cve_id], issue, package) IN
          /\ sec_graph' = [sec_graph EXCEPT ![issue.cve_id] = r.g]
          /\ vuln_call' = [cve_id |-> issue.cve_id, severity |-> issue.severity,
                           raised |-> r.raised, n |-> vuln_call.n + 1]
       /\ UNCHANGED <<sec_call, secRest>>

InitSec ==
    /\ sec_graph = [c \in CveIds |-> NoTriples]
    /\ sec_call = [op |-> "none", scanners |-> <<>>,
                   fallback |-> [available |-> FALSE, raises |-> FALSE,
                                 issues |-> <<>>],
                   fb_scanned |-> FALSE, is_safe |-> TRUE, issues |-> <<>>]
    /\ vuln_call = [cve_id |-> "", severity |-> "", raised |-> FALSE, n |-> 0]

NextScan ==
    \/ CheckPackage

NextVuln ==
    \/ ToOntologyTriples

(* What the session context manager leaves alone *)
scmRest == <<botRest, now, ticks, lockVars, rotVars, pkgVars, mpVars, secVars, tbVars, caVars, upVars>>

(* ---------------------------------------------------------------------- *)
(* src/tools/chatbot_llm/session_context_manager.py: SessionContextManager *)
(* ---------------------------------------------------------------------- *)

MaxScmCalls == 3

ScmTriples == {"task", "entry"}

(* The Turtle a response carries: the triples it parses to, or text that   *)
(* Graph.parse rejects                                                     *)
Turtle(valid, triples) == [valid |-> valid, triples |-> triples]

Responses ==
    {Turtle(FALSE, {})} \cup { Turtle(TRUE, S) : S \in SUBSET ScmTriples }

Manager(dry, sg, lg, sf, lf, raised) ==
    [dry_run |-> dry, session_graph |-> sg, log_graph |-> lg,
     session_ttl |-> sf, session_log_ttl |-> lf, raised |-> raised]

save_graphs(m) ==
    IF m.dry_run THEN m
    ELSE [m EXCEPT !.session_ttl = m.session_graph,
                   !.session_log_ttl = m.log_graph]

(* update_session_and_log without the dry-run return *)
update_session_and_log_applies(m, log_update, session_update) ==
    [m EXCEPT !.session_graph = session_update.triples,
              !.session_ttl = session_update.triples]

update_session_and_log(m, log_update, session_update) ==
    IF m.dry_run THEN m
    ELSE IF log_update # None /\ ~log_update.valid
    THEN [m EXCEPT !.raised = TRUE]
    ELSE LET m1 == IF log_update # None
                   THEN [m EXCEPT !.log_graph = @ \cup log_update.triples]
                   ELSE m
         IN IF ~session_update.valid
            THEN [m1 EXCEPT !.raised = TRUE]
            ELSE save_graphs([m1 EXCEPT !.session_graph = session_update.triples])

(* create_context: in a dry run it prints and returns; otherwise the       *)
(* response is given to update_session_and_log as log and session update   *)
create_context(m, response) ==
    IF m.dry_run THEN m
    ELSE update_session_and_log(m, response, response)

(* pop_context: get_current_context, two responses, then the update *)
pop_context(m, push_response, restore_response) ==
    update_session_and_log(m, push_response, restore_response)

restore_context(m, response) ==
    update_session_and_log(m, None, response)

TheManager ==
    Manager(dry_run, session_graph, log_graph, session_ttl, session_log_ttl,
            FALSE)

ScmDone(m, op, log_update, session_update) ==
    /\ session_graph' = m.session_graph
    /\ log_graph' = m.log_graph
    /\ session_ttl' = m.session_ttl
    /\ session_log_ttl' = m.session_log_ttl
    /\ scm_call' = [op |-> op, log_update |-> log_update,
                    session_update |-> session_update, raised |-> m.raised,
                    n |-> scm_call.n + 1]
    /\ UNCHANGED <<dry_run, scmRest>>

SaveGraphs ==
    /\ scm_call.n < MaxScmCalls
    /\ ScmDone(save_graphs(TheManager), "save_graphs", None, None)

UpdateSessionAndLog ==
    \E log_update \in Responses \cup {None}, session_update \in Responses :
       /\ scm_call.n < MaxScmCalls
       /\ ScmDone(update_session_and_log(TheManager, log_update, session_update),
                  "update_session_and_log", log_update, session_update)

CreateContext ==
    \E response \in Responses :
       /\ scm_call.n < MaxScmCalls
       /\ ScmDone(create_context(TheManager, response), "create_context",
                  response, response)

PopContext ==
    \E push_response \in Responses, restore_response \in Responses :
       /\ scm_call.n < MaxScmCalls
       /\ ScmDone(pop_context(TheManager, push_response, restore_response),
                  "pop_context", push_response, restore_response)

RestoreContext ==
    \E response \in Responses :
       /\ scm_call.n < MaxScmCalls
       /\ ScmDone(restore_context(TheManager, response), "restore_context",
                  None, response)

(* __init__ and load_graphs: both graphs are parsed from their files *)
InitScm ==
    /\ dry_run = FALSE
    /\ session_ttl = {"task"}
    /\ session_log_ttl = {}
    /\ session_graph = session_ttl
    /\ log_graph = session_log_ttl
    /\ scm_call = [op |-> "none", log_update |-> None, session_update |-> None,
                   raised |-> FALSE, n |-> 0]

(* The manager of a run with --dry-run or without *)
InitScmRun ==
    /\ dry_run \in BOOLEAN
    /\ session_ttl \in SUBSET ScmTriples
    /\ session_log_ttl \in SUBSET ScmTriples
    /\ session_graph = session_ttl
    /\ log_graph = session_log_ttl
    /\ scm_call = [op |-> "none", log_update |-> None, session_update |-> None,
                   raised |-> FALSE, n |-> 0]

NextScm ==
    \/ SaveGraphs
    \/ UpdateSessionAndLog
    \/ CreateContext
    \/ PopContext
    \/ RestoreContext

(* What TeamsBot.on_turn leaves alone *)
tbRest == <<conv, outcome, script_pos, at_checkpoint, storeVars, sm_error_count,
            handle_calls, turn, now, ticks, lockVars, rotVars, pkgVars,
            mpVars, secVars, scmVars, caVars, upVars>>

(* ---------------------------------------------------------------------- *)
(* src/teams_bot/bot/teams_bot.py: TeamsBot.on_turn.  ActivityHandler is   *)
(* botbuilder's: its on_turn raises TypeError for an activity without a    *)
(* type and otherwise calls the handler of the activity's type             *)
(* ---------------------------------------------------------------------- *)

MaxBotTurns == 1
MaxSends == 2

(* Activity.type; "None" is an activity without a type *)
ActivityTypes == {"None", "message", "conversationUpdate", "typing"}

ConversationAccount(id) == [kind |-> "ConversationAccount", id |-> id]

ChannelAccount(id) == [kind |-> "ChannelAccount", id |-> id]

Activities ==
    [type : ActivityTypes,
     text : {None, Str(""), Str(" test message ")},
     conversation : {None, ConversationAccount(""),
                     ConversationAccount("test_conversation")},
     recipient : {None, ChannelAccount("bot")},
     members_added : {<<>>, <<ChannelAccount("user")>>, <<ChannelAccount("bot")>>},
     members_removed : {<<>>, <<ChannelAccount("user")>>}]

(* str.strip on the texts above *)
strip(s) == IF s = " test message " THEN "test message" ELSE s

(* A turn in progress: the exception on its way out, the calls made on the *)
(* context and the state manager, and the number of send_activity calls    *)
NoCalls == [raised |-> "none", calls |-> <<>>, sends |-> 0, send_raised |-> FALSE]

SendError == "Exception: Test error"

(* turn_context.send_activity; the call number fail_at raises *)
send_activity(x, activity, fail_at) ==
    IF x.raised # "none" THEN x
    ELSE IF x.sends + 1 = fail_at
    THEN [x EXCEPT !.raised = SendError, !.sends = @ + 1, !.send_raised = TRUE]
    ELSE [x EXCEPT !.calls = Append(@, SendCall(activity)), !.sends = @ + 1]

(* on_message_activity, _handle_message and _process_message *)
on_message_activity(x, a, fail_at) ==
    IF x.raised # "none" THEN x
    ELSE IF a.text = None
    THEN [x EXCEPT !.raised = "AttributeError: 'NoneType' object has no attribute 'strip'"]
    ELSE send_activity(x, [type |-> "message",
                           text |-> <<"Received: ", strip(a.text.v)>>], fail_at)

RECURSIVE on_members_added_activity(_, _, _, _, _)
on_members_added_activity(x, members_added, i, a, fail_at) ==
    IF i > Len(members_added) \/ x.raised # "none" THEN x
    ELSE LET member == members_added[i]
             x1 == IF a.recipient # None /\ member.id # a.recipient.id
                   THEN send_activity(x, "Welcome to the Teams bot!", fail_at)
                   ELSE x
         IN on_members_added_activity(x1, members_added, i + 1, a, fail_at)

(* on_conversation_update_activity; clear_state deletes the activity *)
on_conversation_update_activity(x, a, fail_at) ==
    IF x.raised # "none" THEN x
    ELSE IF a.members_added # <<>>
    THEN on_members_added_activity(x, a.members_added, 1, a, fail_at)
    ELSE IF a.members_removed # <<>>
    THEN [x EXCEPT !.calls = Append(@, [call |-> "clear_state"])]
    ELSE x

(* ActivityHandler.on_turn, with the handlers TeamsBot overrides *)
ActivityHandler_on_turn(x, a, fail_at) ==
    IF a.type = "None"
    THEN [x EXCEPT !.raised = "TypeError: ActivityHandler.on_turn(): turn_context activity must have a non-None type."]
    ELSE IF a.type = "message" THEN on_message_activity(x, a, fail_at)
    ELSE IF a.type = "conversationUpdate"
    THEN on_conversation_update_activity(x, a, fail_at)
    ELSE x

(* _validate_conversation_context that accepts every activity *)
_validate_conversation_context_accepts(x, a) == x

_validate_conversation_context(x, a) ==
    IF x.raised # "none" THEN x
    ELSE IF a.conversation = None
    THEN [x EXCEPT !.raised = "ValueError: No conversation context available"]
    ELSE IF a.conversation.id = ""
    THEN [x EXCEPT !.raised = "ValueError: No conversation ID available"]
    ELSE x

(* TeamsBot.on_turn: super().on_turn first, then the try block, whose      *)
(* except logs and raises again                                            *)
TeamsBot_on_turn(a, fail_at) ==
    LET x1 == ActivityHandler_on_turn(NoCalls, a, fail_at)
        x2 == _validate_conversation_context(x1, a)
    IN IF x2.raised # "none" THEN x2
       ELSE IF a.type = "message" THEN on_message_activity(x2, a, fail_at)
       ELSE IF a.type = "conversationUpdate" /\ a.members_added # <<>>
       THEN on_members_added_activity(x2, a.members_added, 1, a, fail_at)
       ELSE x2

Cleared(x) == \E i \in 1..Len(x.calls) : x.calls[i] = [call |-> "clear_state"]

TeamsBotOnTurn ==
    \E a \in Activities, fail_at \in 0..MaxSends :
       /\ tb_turns < MaxBotTurns
       /\ LET x == TeamsBot_on_turn(a, fail_at) IN
          /\ tb_turn' = [activity |-> a, raised |-> x.raised, calls |-> x.calls,
                         send_raised |-> x.send_raised]
          /\ clear_calls' = IF Cleared(x) THEN clear_calls + 1 ELSE clear_calls
          /\ deleted' = IF Cleared(x) THEN Append(deleted, "activity") ELSE deleted
       /\ tb_turns' = tb_turns + 1
       /\ UNCHANGED tbRest

InitTb ==
    /\ tb_turn = [activity |-> None, raised |-> "none", calls |-> <<>>,
                  send_raised |-> FALSE]
    /\ tb_turns = 0

NextBot ==
    \/ TeamsBotOnTurn

(* What the card action handler leaves alone *)
caRest == <<botRest, now, ticks, lockVars, rotVars, pkgVars, mpVars, secVars, scmVars, tbVars, upVars>>

(* ---------------------------------------------------------------------- *)
(* src/teams_bot/bot/card_actions.py: CardActionHandler                    *)
(* ---------------------------------------------------------------------- *)

ActionNames == {"test_action", "error_action", "unknown_action"}

(* A value of the "action" field that cannot be a dictionary key: a list   *)
(* or a dictionary with something in it                                    *)
Unhashable == [kind |-> "list"]

(* action_data.get("action"): None when the field is missing *)
ActionValues == {None, Str(""), Unhashable} \cup { Str(n) : n \in ActionNames }

(* The handlers: one that returns its activity, one that raises an         *)
(* Exception, one whose await is cancelled (a BaseException)               *)
CardHandlers ==
    { [id |-> "mock_handler", outcome |-> "returns", message |-> ""],
      [id |-> "error_handler", outcome |-> "Exception", message |-> "Test error"],
      [id |-> "cancelled_handler", outcome |-> "CancelledError", message |-> ""] }

HandlerActivity(handler) ==
    [type |-> "message", text |-> "Action handled", handler |-> handler.id]

(* ErrorCard.create: the message block and the reference block *)
ErrorCard_create(error_message, error_id) ==
    [message |-> error_message,
     reference |-> IF error_id # "" THEN <<"Reference ID: ", error_id>> ELSE <<>>]

CardActivity(card) == [type |-> "message", content |-> card]

_handle_unknown_action ==
    CardActivity(ErrorCard_create("Unknown action received", "ERR-UNKNOWN-ACTION"))

_handle_action_error(error_message) ==
    CardActivity(ErrorCard_create(error_message, "ERR-ACTION-FAILED"))

CaResult(raised, result, invoked) ==
    [raised |-> raised, result |-> result, invoked |-> invoked]

register_action(handlers, action_name, handler) ==
    [handlers EXCEPT ![action_name] = handler]

handle_action(handlers, action) ==
    IF action = None \/ action = Str("")
    THEN CaResult("none", _handle_unknown_action, 0)
    ELSE IF action = Unhashable
    THEN CaResult("TypeError: unhashable type: 'list'", None, 0)
    ELSE LET handler == handlers[action.v] IN
         IF handler = None THEN CaResult("none", _handle_unknown_action, 0)
         ELSE IF handler.outcome = "returns"
         THEN CaResult("none", HandlerActivity(handler), 1)
         ELSE IF handler.outcome = "Exception"
         THEN CaResult("none", _handle_action_error(handler.message), 1)
         ELSE CaResult(handler.outcome, None, 1)

RegisterAction ==
    \E action_name \in ActionNames, handler \in CardHandlers :
       /\ ca_handlers' = register_action(ca_handlers, action_name, handler)
       /\ ca_call' = [op |-> "register_action", action |-> Str(action_name),
                      raised |-> "none", result |-> None, invoked |-> 0]
       /\ UNCHANGED caRest

HandleAction ==
    \E action \in ActionValues :
       LET r == handle_action(ca_handlers, action) IN
       /\ ca_call' = [op |-> "handle_action", action |-> action,
                      raised |-> r.raised, result |-> r.result,
                      invoked |-> r.invoked]
       /\ UNCHANGED <<ca_handlers, caRest>>

InitCa ==
    /\ ca_handlers = [n \in ActionNames |-> None]
    /\ ca_call = [op |-> "none", action |-> None, raised |-> "none",
                  result |-> None, invoked |-> 0]

NextCa ==
    \/ RegisterAction
    \/ HandleAction

(* What the user profile calls leave alone *)
upRest == <<convVars, storeVars, errorVars, lockVars, rotVars, pkgVars, mpVars, secVars, scmVars, tbVars, caVars>>

(* ---------------------------------------------------------------------- *)
(* state_manager.py: get_user_profile and save_user_profile                *)
(* ---------------------------------------------------------------------- *)

(* context.activity.from_property.id; "" when it is missing or empty *)
UserIds == {"test_user", "other_user"}
UserContexts == UserIds \cup {""}

ProfileFields ==
    {"name", "preferred_language", "last_interaction", "permissions",
     "query_history", "etag"}

(* user_profile.py: UserProfile(name=..., preferred_language=...) with the *)
(* defaults of the other fields                                            *)
UserProfile(name, preferred_language) ==
    [name |-> name, preferred_language |-> preferred_language,
     last_interaction |-> "", permissions |-> <<>>, query_history |-> <<>>,
     etag |-> "*"]

DefaultUserProfile == UserProfile("", "en-US")

UserProfiles ==
    {DefaultUserProfile, UserProfile("Test User", "en-US"),
     UserProfile("Other User", "fr-FR")}

(* dataclasses.asdict(profile) *)
asdict(profile) == profile

(* UserProfile built from the items of data as keyword arguments:         *)
(* TypeError on a key that is no field; a field the data does not have     *)
(* keeps its default                                                       *)
UserProfileFrom(data) ==
    IF DOMAIN data \subseteq ProfileFields
    THEN [ret |-> [f \in ProfileFields |->
                      IF f \in DOMAIN data THEN data[f] ELSE DefaultUserProfile[f]],
          exc |-> "none"]
    ELSE [ret |-> None, exc |-> "TypeError"]

(* StateManager.get_user_profile: load_state reads the document of the     *)
(* manager's conversation; an exception of the UserProfile constructor is  *)
(* logged and the default profile returned                                 *)
get_user_profile(st, user_id) ==
    IF user_id = "" THEN DefaultUserProfile
    ELSE LET data == load_state(st) IN
         IF data # None /\ UserProfileFrom(data).exc = "none"
         THEN UserProfileFrom(data).ret
         ELSE DefaultUserProfile

(* StateManager.save_user_profile, Storage branch: write under             *)
(* "user/<id>"                                                             *)
save_user_profile(pr, user_id, profile) ==
    IF user_id = ""
    THEN [pr |-> pr, exc |-> "ValueError"]
    ELSE [pr |-> [pr EXCEPT ![user_id] = asdict(profile)], exc |-> "none"]

UpCall(op, user_id, exc, ret) ==
    [op |-> op, user |-> user_id, exc |-> exc, ret |-> ret]

SaveUserProfile ==
    \E user_id \in UserContexts, profile \in UserProfiles :
       LET r == save_user_profile(profiles, user_id, profile) IN
       /\ profiles' = r.pr
       /\ up_call' = UpCall("save_user_profile", user_id, r.exc, None)
       /\ UNCHANGED upRest

GetUserProfile ==
    \E user_id \in UserContexts :
       /\ up_call' = UpCall("get_user_profile", user_id, "none",
                            get_user_profile(storage, user_id))
       /\ UNCHANGED <<profiles, upRest>>

InitUp ==
    /\ profiles = [u \in UserIds |-> None]
    /\ up_call = UpCall("none", "", "none", None)

(* Profiles saved and read, on a storage that comes to hold conversations *)
NextProfile ==
    \/ SaveUserProfile
    \/ GetUserProfile
    \/ GetConversationData

(* The tools other than the session context manager *)
InitOtherTools ==
    /\ InitLock
    /\ InitRotate
    /\ InitPkg
    /\ InitMp
    /\ InitSec
    /\ InitTb
    /\ InitCa
    /\ InitUp

InitTools ==
    /\ InitOtherTools
    /\ InitScm

Init ==
    /\ now = 0
    /\ ticks = 0
    /\ conv = NewConversationData("conv1", "INITIALIZED", 0)
    /\ outcome = Outcome("new", "", "none", TRUE,
                         NewConversationData("conv1", "INITIALIZED", 0))
    /\ script_pos = 0
    /\ at_checkpoint = None
    /\ sm_key = ""
    /\ storage = [k \in StorageKeys |-> None]
    /\ loaded = None
    /\ saved = None
    /\ sm_outcome = SmOutcome("new", "", "none", FALSE)
    /\ sm_error_count = 0
    /\ handle_calls = 0
    /\ clear_calls = 0
    /\ deleted = <<>>
    /\ turn = NoTurn
    /\ InitTools

(* The conversation state machine: every way of firing a trigger *)
TriggerCall ==
    \/ StartAuthentication
    \/ AuthenticationComplete
    \/ StartQuerying
    \/ QueryingComplete
    \/ HandleError
    \/ ResetState
    \/ Dispatch

Next ==
    \/ TriggerCall
    \/ Tick

vars == <<convVars, storeVars, errorVars, toolVars>>

Spec == Init /\ [][Next]_vars

(* The StateManager's persistence: conversation data saved and read back  *)
InitStore ==
    /\ now = 0
    /\ ticks = 0
    /\ conv = NewConversationData("conv1", "INITIALIZED", 0)
    /\ outcome = Outcome("new", "", "none", TRUE,
                         NewConversationData("conv1", "INITIALIZED", 0))
    /\ script_pos = 0
    /\ at_checkpoint = None
    /\ sm_key \in EncryptionKeys
    /\ storage = [k \in StorageKeys |-> None]
    /\ loaded = None
    /\ saved = None
    /\ sm_outcome = SmOutcome("new", "", "none", FALSE)
    /\ sm_error_count = 0
    /\ handle_calls = 0
    /\ clear_calls = 0
    /\ deleted = <<>>
    /\ turn = NoTurn
    /\ InitTools

NextStore ==
    \/ SaveConversationData
    \/ GetConversationData

SpecStore == InitStore /\ [][NextStore]_vars

(* Error handling: the middleware's turns and the manager's error count    *)
NextErrors ==
    \/ OnTurn
    \/ SmHandleError
    \/ TurnTick

SpecErrors == InitStore /\ [][NextErrors]_vars

(* Rotation processes contending for the lock file *)
SpecLock == Init /\ [][NextLock]_vars

(* The bot as Init has it *)
InitBot ==
    /\ now = 0
    /\ ticks = 0
    /\ conv = NewConversationData("conv1", "INITIALIZED", 0)
    /\ outcome = Outcome("new", "", "none", TRUE,
                         NewConversationData("conv1", "INITIALIZED", 0))
    /\ script_pos = 0
    /\ at_checkpoint = None
    /\ sm_key = ""
    /\ storage = [k \in StorageKeys |-> None]
    /\ loaded = None
    /\ saved = None
    /\ sm_outcome = SmOutcome("new", "", "none", FALSE)
    /\ sm_error_count = 0
    /\ handle_calls = 0
    /\ clear_calls = 0
    /\ deleted = <<>>
    /\ turn = NoTurn

InitRotateAll ==
    /\ InitBot
    /\ InitLock
    /\ InitRotateRun
    /\ InitPkg
    /\ InitMp
    /\ InitSec
    /\ InitTb
    /\ InitScm
    /\ InitCa
    /\ InitUp

(* Secret rotation, one process *)
SpecRotate == InitRotateAll /\ [][NextRotate]_vars

(* clpm add, run again and again over the same files *)
SpecPkg == Init /\ [][NextPkg]_vars

(* scripts/manage_packages: add and update, run over the same workspace *)
SpecMp == Init /\ [][NextMp]_vars

(* clpm: one security check of a package, over every list of scanners *)
SpecScan == Init /\ [][NextScan]_vars

(* clpm: to_ontology_triples called again and again for a vulnerability *)
SpecVuln == Init /\ [][NextVuln]_vars

(* A manager constructed with or without --dry-run, over any two files *)
InitScmAll ==
    /\ InitBot
    /\ InitOtherTools
    /\ InitScmRun

(* The session context manager, with and without --dry-run *)
SpecScm == InitScmAll /\ [][NextScm]_vars

(* The bot's turns, over every activity *)
SpecBot == Init /\ [][NextBot]_vars

(* Card actions: handlers registered and actions handled *)
SpecCa == Init /\ [][NextCa]_vars

NextValid ==
    \/ CreateCheckpoint
    \/ RestoreCheckpoint
    \/ SetCheckpoint
    \/ HasValidCheckpoint
    \/ CheckpointTick

(* Checkpoints that age, and are asked whether they are valid *)
SpecValid == Init /\ [][NextValid]_vars

NextTransition ==
    \/ TriggerTransition

(* Transitions triggered through the StateManager on stored conversations *)
SpecTransition == InitStore /\ [][NextTransition]_vars

(* User profiles saved and read through the StateManager *)
SpecProfile == Init /\ [][NextProfile]_vars

(* Checkpoints: a conversation that is driven, written to, checkpointed    *)
(* and restored                                                            *)
InBoundsCk ==
    /\ Len(conv.state_history) < MaxCkHistory
    /\ conv.error_count < MaxCkErrors

NextCheckpoint ==
    \/ (InBoundsCk /\ StartAuthentication)
    \/ (InBoundsCk /\ AuthenticationComplete)
    \/ ResetState
    \/ CreateCheckpoint
    \/ RestoreCheckpoint
    \/ WriteFields
    \/ (ticks < MaxCkTicks /\ Tick)

SpecCheckpoint == Init /\ [][NextCheckpoint]_vars

----------------------------------------------------------------------------
(* Claims about the conversation state machine *)

(* C1: from a fresh ConversationData, dispatching start_auth,              *)
(* auth_success, start_query, process_query, send_response, complete in    *)
(* that order succeeds at every step and leaves current_state at           *)
(* AUTHENTICATING, AUTHENTICATED, QUERYING, PROCESSING, RESPONDING, IDLE.  *)
C1_ScriptSucceeds ==
    script_pos >= 1 =>
        /\ outcome.exc = "none"
        /\ conv.current_state = ScriptStates[script_pos]

(* C2: a trigger (other than error and reset themselves) fired while the   *)
(* current state has timed out does not take its transition: the           *)
(* conversation moves to ERROR and error_count grows by exactly one.       *)
C2_TimedOutTriggerGoesToError ==
    [][ (/\ TriggerCall
         /\ outcome'.arg \notin {"error", "reset"}
         /\ ~check_state_timeout(conv, now)) =>
            /\ conv'.current_state = "ERROR"
            /\ conv'.error_count = conv.error_count + 1 ]_vars

C4_RestoreBringsBack ==
    [][ RestoreCheckpoint =>
            IF at_checkpoint = None
            THEN outcome'.ret = FALSE /\ conv' = conv
            ELSE outcome'.ret = TRUE /\ Restorable(conv') = at_checkpoint ]_vars

(* C4 witness: a restore that succeeded and undid a state change, an error *)
(* count and a write to the data fields made after the checkpoint.         *)
C4_Witness ==
    /\ outcome.op = "restore_checkpoint"
    /\ outcome.ret = TRUE
    /\ outcome.from_state # conv.current_state
    /\ outcome.from_errors # conv.error_count
    /\ conv.active_query = Str("q1")

(* C5: for a context of the manager's own conversation,                    *)
(* save_conversation_data(ctx, d) followed by get_conversation_data(ctx)   *)
(* returns data with d's current_state, error_count and state_history,     *)
(* and, when d carries this state manager, d's active_query and            *)
(* last_response.                                                          *)
C5_SaveThenGetRoundTrip ==
    (/\ sm_outcome.op = "get_conversation_data"
     /\ sm_outcome.after_save
     /\ sm_outcome.ctx = ManagerConvId)
    => /\ sm_outcome.exc = "none"
       /\ loaded.current_state = saved.current_state
       /\ loaded.error_count = saved.error_count
       /\ loaded.state_history = saved.state_history
       /\ saved.state_manager = StateManagerRef(sm_key)
            => /\ loaded.active_query = saved.active_query
               /\ loaded.last_response = saved.last_response

C5_Witness ==
    /\ sm_outcome.op = "get_conversation_data"
    /\ sm_outcome.after_save
    /\ sm_outcome.ctx = ManagerConvId
    /\ sm_key = "k1"
    /\ saved.state_manager = StateManagerRef(sm_key)
    /\ saved.active_query = Str("q1")
    /\ saved.error_count = 1
    /\ saved.state_history # <<>>
    /\ loaded.active_query = Str("q1")

(* The unencrypted part of to_dict's document is the object's own values   *)
PlainFieldsKept(doc, d) ==
    /\ doc.conversation_id = d.conversation_id
    /\ doc.current_state = d.current_state
    /\ doc.last_activity = d.last_activity
    /\ doc.state_history = d.state_history
    /\ doc.error_count = d.error_count

CriticalTypes == {"SystemError", "RuntimeError", "StateError", "TransitionError"}

(* The text contains 'Reference ID: ERR-' *)
HasReferenceId(text) ==
    \E i \in 1..(Len(text) - 1) :
        text[i] = "Reference ID: " /\ text[i + 1] = "ERR-"

C9_ErrorCountCycles ==
    /\ sm_error_count \in 0..2
    /\ sm_error_count = handle_calls % 3
    /\ clear_calls = handle_calls \div 3

C9_Witness ==
    /\ handle_calls = 6
    /\ clear_calls = 2
    /\ sm_error_count = 0
    /\ Len(deleted) = 1

(* C10: error_count never exceeds MAX_ERROR_COUNT, whatever valid and      *)
(* invalid requests are made through the public trigger methods.           *)
C10_ErrorCountBounded ==
    conv.error_count <= MAX_ERROR_COUNT

(* C11: when last_activity is five minutes old as start_auth is dispatched  *)
(* from INITIALIZED, check_state_timeout in the resulting AUTHENTICATING   *)
(* state returns False; and with last_activity at the current time it      *)
(* returns True.                                                           *)
C11_StaleActivityTimesOutAfterStartAuth ==
    /\ [][ (/\ Dispatch
            /\ outcome'.arg = "start_auth"
            /\ outcome'.exc = "none"
            /\ conv.current_state = "INITIALIZED"
            /\ now - conv.last_activity.t > 300)
           => ~check_state_timeout(conv', now') ]_vars
    /\ [](conv.last_activity = Iso(now) => check_state_timeout(conv, now))

(* C12: no two runs are at the same time between a successful acquire_lock *)
(* and their release_lock, as long as no lock older than one hour has      *)
(* been taken over.                                                        *)
C12_RotationLockExcludes ==
    ~stale_used =>
        \A p, q \in Procs : (HoldsLock(p) /\ HoldsLock(q)) => p = q

(* A command of the last rotate_snowflake_keys exited non-zero *)
CommandFailed(r) == \E i \in 1..Len(r.ran) : r.ran[i] # 0

(* C13: rotate_snowflake_keys returns False, and neither backs up nor       *)
(* replaces the existing key file, whenever key generation, public-key     *)
(* extraction or the ALTER USER command exits non-zero; the new key is     *)
(* moved into place only after the Snowflake update has succeeded, and     *)
(* True is returned only then.                                             *)
C13_FailedRotationKeepsKey ==
    [][ RotateSnowflakeKeys =>
          /\ CommandFailed(rot') =>
                /\ rot'.ret = FALSE
                /\ p8'.key = p8.key
                /\ p8'.backup = p8.backup
          /\ p8'.key # p8.key =>
                /\ rot'.ran = <<0, 0, 0>>
                /\ sf_key' = p8'.key
          /\ rot'.ret = TRUE =>
                /\ p8'.key = Key(keygen')
                /\ sf_key' = Key(keygen')
                /\ p8'.new = None ]_vars

(* C13 witness: a rotation that succeeded after one whose ALTER USER       *)
(* failed; the first key generated was never installed.                    *)
C13_Witness ==
    /\ rot.op = "rotate_snowflake_keys"
    /\ rot.ret = TRUE
    /\ keygen = 2
    /\ p8.key = Key(2)
    /\ p8.backup = Key(0)
    /\ sf_key = Key(2)

(* The secret a component keeps in Key Vault *)
SecretOf(c) == IF c = "bot" THEN "bot-app-password" ELSE "state-encryption-key"

NameOf(c) == IF c = "bot" THEN "Bot credentials" ELSE "State encryption"

Sent(r, ok, name) == \E i \in 1..Len(r.notes) : r.notes[i] = Notification(ok, name)

(* C14: rotate_bot_credentials and rotate_state_encryption return True,    *)
(* and run sends SUCCESS for the component, only if the new secret was     *)
(* stored in Key Vault; when the Key Vault update fails they return False  *)
(* and run sends ERROR.                                                    *)
C14_SuccessOnlyIfStored ==
    /\ [][ RotateComponent =>
             (rot'.ret = TRUE <=> vault'[SecretOf(rot'.op)] = Key(keygen')) ]_vars
    /\ [][ (RunAll /\ rot'.ret = TRUE) =>
             \A c \in {"bot", "state"} :
                /\ Sent(rot', TRUE, NameOf(c))
                     => vault'[SecretOf(c)] # vault[SecretOf(c)]
                /\ vault'[SecretOf(c)] = vault[SecretOf(c)]
                     => Sent(rot', FALSE, NameOf(c)) ]_vars

(* The file holds the package *)
Holds(f, pkg, g, py, env, rq) ==
    IF f = "ttl" THEN g[pkg] # None
    ELSE IF f = "pyproject" THEN \E e \in py : e[1] = pkg
    ELSE IF f = "envyml" THEN \E e \in env : e[1] = pkg
    ELSE pkg \in rq

(* The files a complete add_package records the package in *)
Targets(dep_type, use_conda) ==
    {"ttl", "envyml"}
        \cup (IF dep_type \in {"core", "dev"} THEN {"pyproject"} ELSE {})
        \cup (IF use_conda THEN {} ELSE {"reqs"})

WrittenTargets(a) ==
    { a.written[i] : i \in 1..Len(a.written) } \cap Targets(a.dep_type, a.use_conda)

(* C15: add_package is no transaction over the ontology and the three      *)
(* dependency files.  When a call for a new package does not succeed       *)
(* (a write raises, the process dies, or the installation fails and False  *)
(* is returned) every file it had written still records the package, and   *)
(* when it was cut short between two of its writes the files disagree:     *)
(* one records the package and another, which was to record it, does not.  *)
C15_NoRollbackFilesDisagree ==
    (add.fresh /\ add.ret \in {"False", "crashed"}) =>
        /\ \A f \in WrittenTargets(add) :
              Holds(f, add.pkg, ttl, pyproject, envyml, reqs)
        /\ (/\ WrittenTargets(add) # {}
            /\ WrittenTargets(add) # Targets(add.dep_type, add.use_conda))
           => \E f, h \in Targets(add.dep_type, add.use_conda) :
                 /\ Holds(f, add.pkg, ttl, pyproject, envyml, reqs)
                 /\ ~Holds(h, add.pkg, ttl, pyproject, envyml, reqs)

(* C15 witness: the process died after pyproject.toml was written; the    *)
(* ontology and pyproject.toml record the new package, environment.yml     *)
(* does not.                                                               *)
C15_Witness ==
    /\ add.fresh
    /\ add.ret = "crashed"
    /\ add.fault = "crash_2"
    /\ ttl[add.pkg] # None
    /\ <<add.pkg, "core">> \in pyproject
    /\ \A e \in envyml : e[1] # add.pkg

(* C15 witness of the other case: the installation failed, False was       *)
(* returned, and all four files keep the package.                          *)
C15_WitnessInstallFailed ==
    /\ add.fresh
    /\ add.ret = "False"
    /\ add.fault = "none"
    /\ ~add.use_conda
    /\ \A f \in Targets(add.dep_type, add.use_conda) :
          Holds(f, add.pkg, ttl, pyproject, envyml, reqs)

(* ---------------------------------------------------------------------- *)
(* C16: scripts/manage_packages add_package returns False and leaves       *)
(* environment.yml, pyproject.toml and the ontology (file and graph) as    *)
(* they were when the dependency type is not declared in the ontology or   *)
(* the package is already recorded; a name for which add_package returned  *)
(* True is recorded, and every later add_package of it returns False       *)
(* ---------------------------------------------------------------------- *)
MpAddCalled == mp'.n = mp.n + 1 /\ mp'.op = "add_package"

C16_RejectedAddChangesNothing ==
    /\ [][ (/\ MpAddCalled
            /\ \/ <<mp'.dep_type, "rdf:type", "pkg:DependencyType">> \notin mp_graph
               \/ _package_exists(mp_graph, mp'.name))
           => (/\ mp'.ret = FALSE
               /\ UNCHANGED <<mp_env, mp_py, mp_ttl, mp_graph>>) ]_vars
    /\ [][ (MpAddCalled /\ mp'.name \in mp_added) => mp'.ret = FALSE ]_vars
    /\ [](\A nm \in mp_added :
              _package_exists(mp_graph, nm) /\ _package_exists(mp_ttl, nm))

(* A second add_package of a name added before has returned False *)
C16_Witness ==
    /\ mp.op = "add_package"
    /\ mp.name \in mp_added
    /\ mp.ret = FALSE
    /\ mp.dep_type = "CoreDependency"
    /\ mp.n = 2

(* ---------------------------------------------------------------------- *)
(* C17: check_package returns at most one issue per cve_id, the first one  *)
(* reported in scanner order, and is_safe is False exactly when the        *)
(* returned list of issues is not empty                                    *)
(* ---------------------------------------------------------------------- *)
RECURSIVE Concat(_, _)
Concat(scanners, i) ==
    IF i > Len(scanners) THEN <<>>
    ELSE scanners[i].issues \o Concat(scanners, i + 1)

(* The issues the scanners reported, in scanner order *)
Reported(call) ==
    Concat(call.scanners, 1)
        \o (IF call.fb_scanned THEN call.fallback.issues ELSE <<>>)

FirstReported(call, cve_id) ==
    LET rep == Reported(call)
        k == CHOOSE i \in 1..Len(rep) :
                 /\ rep[i].cve_id = cve_id
                 /\ \A j \in 1..(i - 1) : rep[j].cve_id # cve_id
    IN rep[k]

C17_OneIssuePerCveAndSafeIffEmpty ==
    sec_call.op = "check_package" =>
        /\ \A i, j \in 1..Len(sec_call.issues) :
              sec_call.issues[i].cve_id = sec_call.issues[j].cve_id => i = j
        /\ \A i \in 1..Len(sec_call.issues) :
              sec_call.issues[i]
                  = FirstReported(sec_call, sec_call.issues[i].cve_id)
        /\ (sec_call.is_safe = FALSE) <=> (sec_call.issues # <<>>)

(* ---------------------------------------------------------------------- *)
(* C18: from a graph without data for a vulnerability, the severity the    *)
(* graph holds for it never goes down in Unknown < Low < Medium < High <   *)
(* Critical over to_ontology_triples calls, and there is at most one       *)
(* severity triple                                                         *)
(* ---------------------------------------------------------------------- *)
StoredSeverity(e) == IF e.severity = {} THEN "Unknown" ELSE Existing(e.severity)

C18_SeverityNeverDecreases ==
    /\ [][ \A c \in CveIds :
              severity_order(StoredSeverity(sec_graph'[c]))
                  >= severity_order(StoredSeverity(sec_graph[c])) ]_vars
    /\ [](\A c \in CveIds : Cardinality(sec_graph[c].severity) <= 1)

(* A call with Low severity has been made on a vulnerability stored as High *)
C18_Witness ==
    /\ vuln_call.n = 2
    /\ vuln_call.severity = "Low"
    /\ sec_graph[vuln_call.cve_id].severity = {"High"}

(* ---------------------------------------------------------------------- *)
(* C19: with dry_run = True, create_context, update_session_and_log and    *)
(* save_graphs write neither session.ttl nor session_log.ttl and leave     *)
(* the session graph and the log graph in memory as they were              *)
(* ---------------------------------------------------------------------- *)
C19_DryRunChangesNothing ==
    [][ (/\ dry_run
         /\ scm_call'.n = scm_call.n + 1
         /\ scm_call'.op \in {"create_context", "update_session_and_log",
                              "save_graphs"})
        => UNCHANGED <<session_ttl, session_log_ttl, session_graph, log_graph>>
      ]_vars

(* A dry run of update_session_and_log with updates that differ from what  *)
(* the graphs hold                                                         *)
C19_Witness ==
    /\ dry_run
    /\ scm_call.op = "update_session_and_log"
    /\ scm_call.session_update.valid
    /\ scm_call.session_update.triples # session_graph
    /\ scm_call.log_update # None
    /\ scm_call.log_update.valid
    /\ ~(scm_call.log_update.triples \subseteq log_graph)

(* ---------------------------------------------------------------------- *)
(* C20: on_turn raises ValueError 'No conversation context available' for  *)
(* an activity without a conversation and ValueError 'No conversation ID   *)
(* available' for one whose conversation id is empty, and an exception     *)
(* raised while the reply to a message activity is sent comes out of       *)
(* on_turn.  The two ValueErrors are asked only of turns on an activity    *)
(* that has a type and in which no send_activity raised                    *)
(* ---------------------------------------------------------------------- *)
C20_OnTurnRaisesValueError ==
    (tb_turns > 0 /\ tb_turn.activity.type # "None") =>
        /\ (~tb_turn.send_raised /\ tb_turn.activity.conversation = None)
              => tb_turn.raised = "ValueError: No conversation context available"
        /\ (/\ ~tb_turn.send_raised
            /\ tb_turn.activity.conversation # None
            /\ tb_turn.activity.conversation.id = "")
              => tb_turn.raised = "ValueError: No conversation ID available"
        /\ (tb_turn.send_raised /\ tb_turn.activity.type = "message")
              => tb_turn.raised = SendError

(* ---------------------------------------------------------------------- *)
(* C21: handle_action never raises: it returns the registered handler's    *)
(* activity when the handler succeeds, the ERR-ACTION-FAILED card with the *)
(* exception's message when the handler raises, the ERR-UNKNOWN-ACTION     *)
(* card when the action field is missing or names no registered handler,   *)
(* and it invokes the handler at most once                                 *)
(* ---------------------------------------------------------------------- *)
Registered(action) ==
    /\ action \in { Str(n) : n \in ActionNames }
    /\ ca_handlers[action.v] # None

C21_HandleActionNeverRaises ==
    ca_call.op = "handle_action" =>
        /\ ca_call.raised = "none"
        /\ ca_call.invoked <= 1
        /\ ~Registered(ca_call.action)
              => ca_call.result = _handle_unknown_action
        /\ (Registered(ca_call.action)
            /\ ca_handlers[ca_call.action.v].outcome = "returns")
              => ca_call.result = HandlerActivity(ca_handlers[ca_call.action.v])
        /\ (Registered(ca_call.action)
            /\ ca_handlers[ca_call.action.v].outcome # "returns")
              => ca_call.result
                    = _handle_action_error(ca_handlers[ca_call.action.v].message)

(* ---------------------------------------------------------------------- *)
(* C22: has_valid_checkpoint returns True exactly when checkpoint_data is  *)
(* present, checkpoint_timestamp is parseable and the checkpoint is at     *)
(* most 24 hours old; it is True immediately after create_checkpoint and   *)
(* False when the data is missing, the timestamp is invalid or the         *)
(* timestamp is two days old                                               *)
(* ---------------------------------------------------------------------- *)
CheckpointAge == now - conv.checkpoint_timestamp.t

C22_ValidCheckpoint ==
    /\ outcome.op = "has_valid_checkpoint" =>
          (outcome.ret <=> /\ conv.checkpoint_data # None
                           /\ conv.checkpoint_timestamp.kind = "iso"
                           /\ CheckpointAge <= 24 * 3600)
    /\ outcome.op = "create_checkpoint" => has_valid_checkpoint(conv, now)
    /\ (\/ conv.checkpoint_data = None
        \/ conv.checkpoint_timestamp = Str("invalid_timestamp")
        \/ (conv.checkpoint_timestamp.kind = "iso"
            /\ CheckpointAge >= 2 * 24 * 3600))
          => ~has_valid_checkpoint(conv, now)

(* A checkpoint that is more than a day old has been found invalid *)
C22_Witness ==
    /\ outcome.op = "has_valid_checkpoint"
    /\ ~outcome.ret
    /\ conv.checkpoint_data # None
    /\ conv.checkpoint_timestamp.kind = "iso"
    /\ CheckpointAge = 24 * 3600 + 1

(* A checkpoint that is exactly a day old has been found valid *)
C22_WitnessBoundary ==
    /\ outcome.op = "has_valid_checkpoint"
    /\ outcome.ret
    /\ CheckpointAge = 24 * 3600

(* ---------------------------------------------------------------------- *)
(* C23: current_state always equals the state of the state machine's       *)
(* model, after any sequence of triggers, create_checkpoint and            *)
(* restore_checkpoint; after restore_checkpoint the triggers that succeed  *)
(* are exactly those defined for the restored state                        *)
(* ---------------------------------------------------------------------- *)
SucceedingTriggers(c, clock) ==
    { t \in TriggerNames : EventOnModel(c, t, clock).exc = "none" }

C23_CurrentStateIsMachineState ==
    /\ conv.current_state = conv.state
    /\ (outcome.op = "restore_checkpoint" /\ outcome.ret)
          => SucceedingTriggers(conv, now) = get_triggers(conv.current_state)

(* The first half alone, and the second half alone *)
C23_StateOnly == conv.current_state = conv.state

C23_TriggersOnly ==
    (outcome.op = "restore_checkpoint" /\ outcome.ret)
        => SucceedingTriggers(conv, now) = get_triggers(conv.current_state)

(* Without restore_checkpoint the two agree *)
C23_AgreeUntilRestore ==
    conv.current_state # conv.state => conv.checkpoint_data # None

(* ---------------------------------------------------------------------- *)
(* C24: from a fresh ConversationData only INITIALIZED, AUTHENTICATING,    *)
(* AUTHENTICATED, QUERYING and ERROR are entered by the defined triggers;  *)
(* PROCESSING, RESPONDING, IDLE and COMPLETED are never entered; once in   *)
(* ERROR no trigger other than reset leaves ERROR                          *)
(* ---------------------------------------------------------------------- *)
EnteredStates == {"INITIALIZED", "AUTHENTICATING", "AUTHENTICATED", "QUERYING", "ERROR"}

C24_ReachableStates ==
    /\ [](conv.current_state \in EnteredStates /\ conv.state \in EnteredStates)
    /\ [][(conv.current_state = "ERROR" /\ conv'.current_state # "ERROR")
             => outcome'.arg = "reset"]_vars
    /\ [][(conv.state = "ERROR" /\ conv'.state # "ERROR")
             => outcome'.arg = "reset"]_vars

(* The parts of it *)
C24_OnlyFive ==
    conv.current_state \in EnteredStates /\ conv.state \in EnteredStates

C24_CurrentStateLeavesErrorByReset ==
    [][(conv.current_state = "ERROR" /\ conv'.current_state # "ERROR")
          => outcome'.arg = "reset"]_vars

C24_ModelStateLeavesErrorByReset ==
    [][(conv.state = "ERROR" /\ conv'.state # "ERROR")
          => outcome'.arg = "reset"]_vars

(* ---------------------------------------------------------------------- *)
(* C25: after trigger_transition(ctx, t) returns normally the conversation *)
(* state held in storage is the destination of t from the previously       *)
(* stored state; if t is not valid from the stored state, the call raises  *)
(* and the stored conversation state is unchanged                          *)
(* ---------------------------------------------------------------------- *)
(* The state of the manager's conversation in storage; a conversation not  *)
(* stored yet is stored as INITIALIZED before the trigger is fired         *)
StoredState(st) ==
    IF st[ManagerConvId] = None THEN "INITIALIZED"
    ELSE st[ManagerConvId].current_state

C25_WitnessInvalid ==
    /\ sm_outcome.op = "trigger_transition"
    /\ sm_outcome.ctx = ManagerConvId
    /\ sm_outcome.exc = "MachineError"
    /\ storage[ManagerConvId] # None
    /\ StoredState(storage) = "AUTHENTICATING"

(* ---------------------------------------------------------------------- *)
(* C26: with an encryption key configured, every document written through  *)
(* save_conversation_data has its non-null sensitive fields encrypted,     *)
(* also for the data get_conversation_data created itself because nothing  *)
(* was stored; and data written that way is read back by                   *)
(* get_conversation_data with the same sensitive field values              *)
(* ---------------------------------------------------------------------- *)
SensitiveEncrypted(doc) ==
    \A f \in SensitiveFields : doc[f] # None => doc[f].kind = "fernet"

C26_StoredSensitiveFieldsEncrypted ==
    sm_key # "" =>
       /\ \A k \in StorageKeys :
             storage[k] # None => SensitiveEncrypted(storage[k])
       /\ (/\ sm_outcome.op = "get_conversation_data"
           /\ sm_outcome.after_save
           /\ sm_outcome.ctx = ManagerConvId)
             => \A f \in SensitiveFields : loaded[f] = saved[f]

(* The same for data that carries the manager and can be encoded as JSON *)
C26_WithManagerAttached ==
    (/\ sm_key # ""
     /\ sm_outcome.op \in {"save_conversation_data", "get_conversation_data"}
     /\ sm_outcome.op = "get_conversation_data" => sm_outcome.after_save
     /\ sm_outcome.ctx = ManagerConvId
     /\ sm_outcome.exc = "none"
     /\ saved.state_manager = StateManagerRef(sm_key)
     /\ \A f \in SensitiveFields : saved[f] # None => JsonSerializable(saved[f]))
    => /\ SensitiveEncrypted(storage[ManagerConvId])
       /\ sm_outcome.op = "get_conversation_data"
             => \A f \in SensitiveFields : loaded[f] = saved[f]

(* A query saved in plaintext although the manager has a key *)
C26_PlaintextStored ==
    /\ sm_key = "k1"
    /\ sm_outcome.op = "save_conversation_data"
    /\ sm_outcome.exc = "none"
    /\ saved.state_manager = None
    /\ storage[sm_outcome.ctx].active_query = Str("q1")

(* ---------------------------------------------------------------------- *)
(* C27: for a message activity with a valid conversation on_turn handles   *)
(* the message exactly once and sends exactly one reply; for a             *)
(* conversation update each added member other than the bot is sent        *)
(* exactly one welcome; no reply is sent for an activity that fails        *)
(* validation                                                              *)
(* ---------------------------------------------------------------------- *)
Sends(calls) ==
    Cardinality({ i \in 1..Len(calls) : calls[i].call = "send_activity" })

ValidConversation(a) == a.conversation # None /\ a.conversation.id # ""

NewMembers(a) ==
    Cardinality({ i \in 1..Len(a.members_added) :
                    a.recipient # None /\ a.members_added[i].id # a.recipient.id })

C27_OneReplyPerActivity ==
    (tb_turns > 0 /\ ~tb_turn.send_raised) =>
        LET a == tb_turn.activity IN
        /\ (a.type = "message" /\ a.text # None /\ ValidConversation(a))
              => Sends(tb_turn.calls) = 1
        /\ (a.type = "conversationUpdate" /\ ValidConversation(a))
              => Sends(tb_turn.calls) = NewMembers(a)
        /\ (a.type # "None" /\ ~ValidConversation(a))
              => Sends(tb_turn.calls) = 0

(* What on_turn does: everything is handled by super().on_turn before the  *)
(* conversation is validated, and once more after it                       *)
C27_HandledBeforeValidation ==
    (tb_turns > 0 /\ ~tb_turn.send_raised) =>
        LET a == tb_turn.activity IN
        /\ (a.type = "message" /\ a.text # None /\ ValidConversation(a))
              => Sends(tb_turn.calls) = 2
        /\ (a.type = "conversationUpdate" /\ ValidConversation(a))
              => Sends(tb_turn.calls) = 2 * NewMembers(a)
        /\ (a.type = "message" /\ a.text # None /\ ~ValidConversation(a))
              => Sends(tb_turn.calls) = 1
        /\ (a.type = "conversationUpdate" /\ ~ValidConversation(a))
              => Sends(tb_turn.calls) = NewMembers(a)

(* ---------------------------------------------------------------------- *)
(* C28: after any sequence of successful triggers state_history has no two *)
(* consecutive entries with the same state and its last entry names        *)
(* current_state; immediately after a reset state_history has exactly one  *)
(* entry, for INITIALIZED                                                  *)
(* ---------------------------------------------------------------------- *)
NoRepeatedState(h) ==
    \A i \in 1..(Len(h) - 1) : h[i].state # h[i + 1].state

C28_HistoryFollowsState ==
    (outcome.op # "new" /\ outcome.exc = "none") =>
        /\ NoRepeatedState(conv.state_history)
        /\ conv.state_history # <<>>
        /\ conv.state_history[Len(conv.state_history)].state = conv.current_state
        /\ outcome.arg = "reset"
              => /\ Len(conv.state_history) = 1
                 /\ conv.state_history[1].state = "INITIALIZED"

(* The error trigger has succeeded on a conversation that was in ERROR,    *)
(* and the history has one ERROR entry                                     *)
C28_Witness ==
    /\ outcome.op = "handle_error"
    /\ outcome.exc = "none"
    /\ outcome.from_state = "ERROR"
    /\ Len(conv.state_history) = 1
    /\ conv.state_history[1].state = "ERROR"

(* A reset has succeeded on a conversation with a history *)
C28_WitnessReset ==
    /\ outcome.arg = "reset"
    /\ outcome.exc = "none"
    /\ outcome.from_state = "AUTHENTICATED"
    /\ Len(conv.state_history) = 1

(* ---------------------------------------------------------------------- *)
(* C29: a profile stored with save_user_profile is returned by a           *)
(* subsequent get_user_profile for the same user and conversation; it is   *)
(* never returned as, nor overwritten by, the ConversationData document    *)
(* ---------------------------------------------------------------------- *)
IsProfile(doc) == DOMAIN doc = ProfileFields

C29_SavedProfileIsReturned ==
    /\ \A u \in UserIds : profiles[u] # None => IsProfile(profiles[u])
    /\ (up_call.op = "get_user_profile" /\ up_call.user # "")
          => /\ IsProfile(up_call.ret)
             /\ profiles[up_call.user] # None
                   => up_call.ret = profiles[up_call.user]

(* The part of it that is not about what get_user_profile finds *)
C29_ProfilesAndConversationsApart ==
    /\ \A u \in UserIds : profiles[u] # None => IsProfile(profiles[u])
    /\ up_call.op = "get_user_profile" => IsProfile(up_call.ret)

(* What get_user_profile returns: the default profile, whatever was saved *)
C29_DefaultProfileReturned ==
    up_call.op = "get_user_profile" => up_call.ret = DefaultUserProfile

====
